---- MODULE Spec2Model ----
(***************************************************************************)
(* Model of reading_log_final.py: the identifier normaliser                *)
(* (validate_and_format_isbn) and the author-field normaliser              *)
(* (clean_author_name).                                                    *)
(*                                                                         *)
(* A Python str is a sequence of characters; a character is a one-element  *)
(* TLA+ string.  Hangul syllables are written by their romanisation:       *)
(*   "ji" 지  "eun" 은  "i" 이  "olm" 옮  "gin" 긴  "geul" 글  "jeo" 저       *)
(*   "yeok" 역  "pyeon" 편  "gam" 감  "su" 수  "kim" 김 (a name syllable)     *)
(*   "yeong" 영  "ha" 하  "bak" 박  "sang" 상 (name syllables)                *)
(* "\n" is the line feed.                                                  *)
(***************************************************************************)
EXTENDS Integers, Sequences, FiniteSets, TLC

VARIABLES isbnIn, isbnResult, prevIn, prevResult, edits,
          authorIn, authorOut, authorPhase,
          searchResult, searchedText,
          connDb, liveFile, tempFile, safetyFile,
          restorePc, uploaded, restoreResult, restores, liveBefore, ioFault,
          download, backupOf,
          clock, reportOut,
          goalTable, goalSeq, upsertOk, goalOut, lastGoal,
          wikiEntities

isbnVars == <<isbnIn, isbnResult, prevIn, prevResult, edits>>
authorVars == <<authorIn, authorOut, authorPhase>>
storeVars == <<connDb, liveFile, tempFile, safetyFile>>
restoreVars ==
  <<restorePc, uploaded, restoreResult, restores, liveBefore, ioFault>>
backupVars == <<download, backupOf>>
goalVars == <<goalTable, goalSeq, upsertOk, goalOut, lastGoal>>
appVars == <<searchResult, searchedText, storeVars, restoreVars, backupVars,
             clock, reportOut, goalVars, wikiEntities>>
vars == <<isbnVars, authorVars, appVars>>

(***************************************************************************)
(* Bounds of the explored inputs.                                          *)
(***************************************************************************)
MaxEdits == 1
MaxAuthorLen == 4
MaxBooks == 2
MaxRestores == 1
MaxGoalSets == 3
MaxClock == 2

Digits == {"0", "1", "2", "3", "4", "5", "6", "7", "8", "9"}

\* Characters a user can put into the ISBN field: the digits, both cases of
\* the check character, a separator and a letter.
IsbnChars == Digits \cup {"X", "x", "-", "a"}

\* Texts the ISBN field starts from.
IsbnSeeds ==
  { <<"9","7","8","8","9","3","6","4","3","4","2","6","7">>,
    <<"9","7","8","-","8","9","-","3","6","4","-","3","4","2","6","-","7">>,
    <<"8","9","8","3","7","1","1","5","4","0">>,
    <<"1","2","3","4","5","6","7","8","9","X">>,
    <<"1","2","3","4","5">>,
    <<>> }

NoResult == [outcome |-> "none"]

\* no result is shown
NoReport == [fn |-> "none"]

Absent == [kind |-> "absent"]
ConnFile == [kind |-> "conn"]
Kept == [kind |-> "kept"]

SchemaTables == {"books", "reading_goals"}

Sqlite(tables, rows, seq) ==
  [kind |-> "sqlite", tables |-> tables, books |-> rows, seq |-> seq]

\* the database init_database creates where there is none
EmptyDb == Sqlite(SchemaTables, <<>>, 0)

(***************************************************************************)
(* The program after its first start: an empty catalog, no file but the    *)
(* database, an empty session.                                             *)
(***************************************************************************)
\* the wiki page has searched nothing; a record has no wiki links (NULL)
NoEntities == [searched |-> FALSE]
NoLinks == [kind |-> "null"]

SessionIdle ==
  /\ wikiEntities = NoEntities
  /\ liveFile = ConnFile
  /\ tempFile = Absent
  /\ safetyFile = Absent
  /\ restorePc = "idle"
  /\ uploaded = Absent
  /\ restoreResult = "none"
  /\ restores = 0
  /\ liveBefore = Absent
  /\ ioFault = FALSE
  /\ download = Absent
  /\ backupOf = <<>>
  /\ searchResult = NoResult
  /\ searchedText = <<>>
  /\ clock = 1
  /\ reportOut = NoReport

CatalogIdle == SessionIdle /\ connDb = EmptyDb

\* the years and the values of reading goals; a value is an int or an
\* object of another type
GoalYears == {2024, 2025}
NoGoal == [type |-> "none"]

\* the table reading_goals is empty and nothing was asked of it
GoalIdle ==
  /\ goalTable = <<>>
  /\ goalSeq = 0
  /\ goalOut = [fn |-> "none"]
  /\ lastGoal = [y \in GoalYears |-> NoGoal]

AppIdle == CatalogIdle /\ GoalIdle /\ upsertOk = TRUE

(***************************************************************************)
(* Python primitives used by validate_and_format_isbn.                     *)
(***************************************************************************)
\* str.upper() on one character of IsbnChars.
UpperChar(c) ==
  CASE c = "x" -> "X"
    [] c = "a" -> "A"
    [] OTHER -> c

Upper(s) == [k \in 1..Len(s) |-> UpperChar(s[k])]

\* re.sub(r'[^0-9X]', '', s): keep the digits and 'X', in order.
KeepIsbnChars(s) == SelectSeq(s, LAMBDA c : c \in Digits \cup {"X"})

\* isbn = re.sub(r'[^0-9X]', '', isbn.upper())
\* (faulty variant: the text is not uppercased before the filter)
CleanIsbnNoUpper(s) == KeepIsbnChars(s)
CleanIsbn(s) == KeepIsbnChars(Upper(s))

\* int(digit) succeeds exactly on a decimal digit; on 'X' it raises ValueError.
IntOk(c) == c \in Digits

DigitVal(c) ==
  CASE c = "0" -> 0 [] c = "1" -> 1 [] c = "2" -> 2 [] c = "3" -> 3
    [] c = "4" -> 4 [] c = "5" -> 5 [] c = "6" -> 6 [] c = "7" -> 7
    [] c = "8" -> 8 [] c = "9" -> 9

\* str(check_digit) for 0..9
DigitStr(n) ==
  CASE n = 0 -> "0" [] n = 1 -> "1" [] n = 2 -> "2" [] n = 3 -> "3"
    [] n = 4 -> "4" [] n = 5 -> "5" [] n = 6 -> "6" [] n = 7 -> "7"
    [] n = 8 -> "8" [] n = 9 -> "9"

\* weight = 1 if i % 2 == 0 else 3, i the 0-indexed position (k = i + 1)
Weight(k) == IF (k - 1) % 2 = 0 THEN 1 ELSE 3

\* the loop  for i, digit in enumerate(t): checksum += int(digit) * weight
RECURSIVE ChecksumUpTo(_, _)
ChecksumUpTo(t, n) ==
  IF n = 0 THEN 0 ELSE ChecksumUpTo(t, n - 1) + DigitVal(t[n]) * Weight(n)

Checksum(t) == ChecksumUpTo(t, Len(t))

\* (10 - (checksum % 10)) % 10
CheckDigit(checksum) == (10 - (checksum % 10)) % 10

AllInt(t) == \A k \in 1..Len(t) : IntOk(t[k])

\* s[:-1]
ButLast(s) == IF Len(s) = 0 THEN s ELSE SubSeq(s, 1, Len(s) - 1)

(***************************************************************************)
(* validate_and_format_isbn.  A returned dict is a record: keys is the set *)
(* of its keys, isbn13 is <<>> when the dict has no such key; message is   *)
(* the message template with the values formatted into it.  An exception   *)
(* leaving the function is the outcome "raised".                           *)
(***************************************************************************)
Returned(valid, isbn13, message) ==
  [outcome |-> "returned",
   keys |-> IF valid THEN {"valid", "isbn13", "message"} ELSE {"valid", "message"},
   valid |-> valid, isbn13 |-> isbn13, message |-> message, exc |-> "none"]

Raised(exc) ==
  [outcome |-> "raised", keys |-> {}, valid |-> FALSE, isbn13 |-> <<>>,
   message |-> <<>>, exc |-> exc]

\* (faulty variant: the first character is dropped instead of the last)
Isbn10BranchDropsFirst(isbn) ==
  LET isbn12 == <<"9", "7", "8">> \o Tail(isbn)
  IN  IF ~AllInt(isbn12)
      THEN Raised("ValueError")
      ELSE LET isbn13 == Append(isbn12, DigitStr(CheckDigit(Checksum(isbn12))))
           IN  Returned(TRUE, isbn13, <<"ISBN10_CONVERTED", isbn13>>)

\* the len(isbn) == 10 branch
Isbn10Branch(isbn) ==
  LET isbn12 == <<"9", "7", "8">> \o ButLast(isbn)
  IN  IF ~AllInt(isbn12)
      THEN Raised("ValueError")
      ELSE LET isbn13 == Append(isbn12, DigitStr(CheckDigit(Checksum(isbn12))))
           IN  Returned(TRUE, isbn13, <<"ISBN10_CONVERTED", isbn13>>)

\* (faulty variant: no try/except around the conversion)
Isbn13BranchUnguarded(isbn) ==
  IF ~AllInt(ButLast(isbn)) \/ ~IntOk(isbn[Len(isbn)])
  THEN Raised("ValueError")
  ELSE LET expected_check == CheckDigit(Checksum(ButLast(isbn)))
           actual_check == DigitVal(isbn[Len(isbn)])
       IN  IF expected_check = actual_check
           THEN Returned(TRUE, isbn, <<"ISBN13_VALID">>)
           ELSE Returned(FALSE, <<>>,
                         <<"ISBN13_CHECKSUM", expected_check, actual_check>>)

\* (faulty variant: the checksum runs over isbn instead of isbn[:-1])
Isbn13BranchNoSlice(isbn) ==
  IF ~AllInt(isbn)
  THEN Returned(FALSE, <<>>, <<"ISBN13_FORMAT">>)
  ELSE LET expected_check == CheckDigit(Checksum(isbn))
           actual_check == DigitVal(isbn[Len(isbn)])
       IN  IF expected_check = actual_check
           THEN Returned(TRUE, isbn, <<"ISBN13_VALID">>)
           ELSE Returned(FALSE, <<>>,
                         <<"ISBN13_CHECKSUM", expected_check, actual_check>>)

\* (faulty variant: expected and actual swapped in the message)
Isbn13BranchSwapped(isbn) ==
  IF ~AllInt(ButLast(isbn)) \/ ~IntOk(isbn[Len(isbn)])
  THEN Returned(FALSE, <<>>, <<"ISBN13_FORMAT">>)
  ELSE LET expected_check == CheckDigit(Checksum(ButLast(isbn)))
           actual_check == DigitVal(isbn[Len(isbn)])
       IN  IF expected_check = actual_check
           THEN Returned(TRUE, isbn, <<"ISBN13_VALID">>)
           ELSE Returned(FALSE, <<>>,
                         <<"ISBN13_CHECKSUM", actual_check, expected_check>>)

\* the len(isbn) == 13 branch, with its try/except (ValueError, IndexError)
Isbn13Branch(isbn) ==
  IF ~AllInt(ButLast(isbn)) \/ ~IntOk(isbn[Len(isbn)])
  THEN Returned(FALSE, <<>>, <<"ISBN13_FORMAT">>)
  ELSE LET expected_check == CheckDigit(Checksum(ButLast(isbn)))
           actual_check == DigitVal(isbn[Len(isbn)])
       IN  IF expected_check = actual_check
           THEN Returned(TRUE, isbn, <<"ISBN13_VALID">>)
           ELSE Returned(FALSE, <<>>,
                         <<"ISBN13_CHECKSUM", expected_check, actual_check>>)

\* the final else branch
\* (faulty variant: the message does not carry len(isbn))
LengthErrorNoLen(isbn) == Returned(FALSE, <<>>, <<"ISBN_LENGTH", 0>>)
LengthError(isbn) == Returned(FALSE, <<>>, <<"ISBN_LENGTH", Len(isbn)>>)

validate_and_format_isbn(raw) ==
  LET isbn == CleanIsbn(raw)
  IN  IF Len(isbn) = 10 THEN Isbn10Branch(isbn)
      ELSE IF Len(isbn) = 13 THEN Isbn13Branch(isbn)
      ELSE LengthError(isbn)

(***************************************************************************)
(* The ISBN field of the add form and the search button: the text is       *)
(* edited one character at a time, the search button runs                  *)
(* validate_and_format_isbn on it, and the canonical identifier it shows   *)
(* can be entered as the next text.  edits counts the changes of the       *)
(* field; prevIn/prevResult remember the last validated text and its       *)
(* outcome.                                                                *)
(***************************************************************************)
Remember ==
  IF isbnResult # NoResult
  THEN prevIn' = isbnIn /\ prevResult' = isbnResult
  ELSE UNCHANGED <<prevIn, prevResult>>

ReplaceAt(s, k, c) == [s EXCEPT ![k] = c]
InsertAt(s, k, c) == SubSeq(s, 1, k) \o <<c>> \o SubSeq(s, k + 1, Len(s))
DeleteAt(s, k) == SubSeq(s, 1, k - 1) \o SubSeq(s, k + 1, Len(s))

EditReplace ==
  /\ edits < MaxEdits
  /\ \E k \in 1..Len(isbnIn), c \in IsbnChars :
       /\ c # isbnIn[k]
       /\ isbnIn' = ReplaceAt(isbnIn, k, c)
  /\ Remember
  /\ isbnResult' = NoResult
  /\ edits' = edits + 1
  /\ UNCHANGED <<authorVars, appVars>>

EditInsert ==
  /\ edits < MaxEdits
  /\ \E k \in 0..Len(isbnIn), c \in IsbnChars : isbnIn' = InsertAt(isbnIn, k, c)
  /\ Remember
  /\ isbnResult' = NoResult
  /\ edits' = edits + 1
  /\ UNCHANGED <<authorVars, appVars>>

EditDelete ==
  /\ edits < MaxEdits
  /\ \E k \in 1..Len(isbnIn) : isbnIn' = DeleteAt(isbnIn, k)
  /\ Remember
  /\ isbnResult' = NoResult
  /\ edits' = edits + 1
  /\ UNCHANGED <<authorVars, appVars>>

\* isbn_result = validate_and_format_isbn(isbn)
Validate ==
  /\ isbnResult = NoResult
  /\ isbnResult' = validate_and_format_isbn(isbnIn)
  /\ UNCHANGED <<isbnIn, prevIn, prevResult, edits, authorVars, appVars>>

\* the identifier of a valid result is entered as the next text
Resubmit ==
  /\ edits < MaxEdits
  /\ isbnResult # NoResult
  /\ isbnResult.outcome = "returned"
  /\ isbnResult.valid
  /\ isbnResult.isbn13 # isbnIn
  /\ isbnIn' = isbnResult.isbn13
  /\ Remember
  /\ isbnResult' = NoResult
  /\ edits' = edits + 1
  /\ UNCHANGED <<authorVars, appVars>>

AuthorIdle == authorIn = <<>> /\ authorOut = <<>> /\ authorPhase = "raw"

InitIsbn ==
  /\ isbnIn \in IsbnSeeds
  /\ isbnResult = NoResult
  /\ prevIn = <<>>
  /\ prevResult = NoResult
  /\ edits = 0
  /\ AuthorIdle
  /\ AppIdle

NextIsbn == EditReplace \/ EditInsert \/ EditDelete \/ Validate \/ Resubmit

SpecIsbn == InitIsbn /\ [][NextIsbn]_vars

(***************************************************************************)
(* Vocabulary of the properties of validate_and_format_isbn, stated on the *)
(* input text and not through the operators that model the function.       *)
(***************************************************************************)
Validated == isbnResult # NoResult
PrevValidated == prevResult # NoResult

IsDigits(s) == \A k \in 1..Len(s) : s[k] \in Digits

\* the significant characters of a text: its digits and its x/X, as 'X'
SigText(s) ==
  LET kept == SelectSeq(s, LAMBDA c : c \in Digits \cup {"x", "X"})
  IN  [k \in 1..Len(kept) |-> IF kept[k] = "x" THEN "X" ELSE kept[k]]

\* the ISBN-13 check digit of twelve digits: weights 1,3,1,3,... from the left
Isbn13Weights == <<1, 3, 1, 3, 1, 3, 1, 3, 1, 3, 1, 3>>
RECURSIVE WeightedSum(_, _)
WeightedSum(t, w) ==
  IF t = <<>> THEN 0 ELSE DigitVal(Head(t)) * Head(w) + WeightedSum(Tail(t), Tail(w))
ExpectedCheck(t12) == (10 - (WeightedSum(t12, Isbn13Weights) % 10)) % 10

\* a 13-digit identifier with a correct check digit
ValidIsbn13(s) ==
  /\ Len(s) = 13
  /\ IsDigits(s)
  /\ DigitVal(s[13]) = ExpectedCheck(SubSeq(s, 1, 12))

Success13(r) ==
  /\ r.outcome = "returned"
  /\ r.valid
  /\ "isbn13" \in r.keys

Failure(r, message) ==
  /\ r.outcome = "returned"
  /\ ~r.valid
  /\ "isbn13" \notin r.keys
  /\ r.message = message

\* C1: every input whose cleaned form has exactly 10 characters yields a
\* success whose isbn13 is 13 decimal digits starting with 978.
C1_TenCharsAlwaysConvert ==
  (Validated /\ Len(SigText(isbnIn)) = 10) =>
    /\ Success13(isbnResult)
    /\ Len(isbnResult.isbn13) = 13
    /\ IsDigits(isbnResult.isbn13)
    /\ SubSeq(isbnResult.isbn13, 1, 3) = <<"9", "7", "8">>

\* C2: validate_and_format_isbn is total: every text yields a structured
\* outcome (validity flag and message, the identifier exactly when the flag is
\* true) and no exception leaves the function.
C2_AlwaysStructuredOutcome ==
  Validated =>
    /\ isbnResult.outcome = "returned"
    /\ {"valid", "message"} \subseteq isbnResult.keys
    /\ ("isbn13" \in isbnResult.keys) <=> isbnResult.valid
    /\ isbnResult.message # <<>>

\* C3: a 13-digit identifier whose 13th digit is the check digit of its first
\* twelve is accepted and returned unchanged.
C3_ValidIsbn13Unchanged ==
  (Validated /\ ValidIsbn13(isbnIn)) =>
    /\ Success13(isbnResult)
    /\ isbnResult.isbn13 = isbnIn

\* C3 witness: an identifier produced by a conversion (not a starting text)
\* was validated and accepted.
C3_Witness ==
  /\ Validated
  /\ ValidIsbn13(isbnIn)
  /\ isbnIn \notin IsbnSeeds
  /\ isbnResult.valid

\* C4: replacing the last digit c of a valid 13-digit identifier by another
\* digit d gives a checksum-mismatch failure that reports c as expected and d
\* as actual, and no identifier.
C4_CorruptedCheckDigitReported ==
  ( /\ Validated
    /\ ValidIsbn13(prevIn)
    /\ Len(isbnIn) = 13
    /\ SubSeq(isbnIn, 1, 12) = SubSeq(prevIn, 1, 12)
    /\ isbnIn[13] \in Digits \ {prevIn[13]} ) =>
    Failure(isbnResult,
            <<"ISBN13_CHECKSUM", DigitVal(prevIn[13]), DigitVal(isbnIn[13])>>)

\* C4 witness: an accepted identifier had its last digit replaced and the
\* corrupted text was validated.
C4_Witness ==
  /\ Validated
  /\ PrevValidated
  /\ prevResult.valid
  /\ ValidIsbn13(prevIn)
  /\ Len(isbnIn) = 13
  /\ SubSeq(isbnIn, 1, 12) = SubSeq(prevIn, 1, 12)
  /\ isbnIn[13] \in Digits \ {prevIn[13]}
  /\ ~isbnResult.valid

\* C5: the outcome depends only on the significant characters: two texts
\* with the same digits and x/X (as 'X') in the same order get the same
\* outcome, and 978-89-364-3426-7 succeeds with 9788936434267.
C5_OnlySignificantCharsCount ==
  /\ (Validated /\ PrevValidated /\ SigText(prevIn) = SigText(isbnIn)) =>
       isbnResult = prevResult
  /\ ( /\ Validated
       /\ isbnIn = <<"9","7","8","-","8","9","-","3","6","4","-",
                     "3","4","2","6","-","7">> ) =>
       /\ Success13(isbnResult)
       /\ isbnResult.isbn13 =
            <<"9","7","8","8","9","3","6","4","3","4","2","6","7">>

\* C5 witness: two different validated texts with the same significant
\* characters, the second differing by a letter, a separator or the case of x.
C5_Witness ==
  /\ Validated
  /\ PrevValidated
  /\ prevIn # isbnIn
  /\ SigText(prevIn) = SigText(isbnIn)
  /\ Len(SigText(isbnIn)) \in {10, 13}

\* C6: a text whose cleaned length is neither 10 nor 13 is rejected with the
\* length message, which reports that length, and no identifier.
C6_OtherLengthsRejected ==
  Validated =>
    LET n == Len(SigText(isbnIn))
    IN  n \notin {10, 13} => Failure(isbnResult, <<"ISBN_LENGTH", n>>)

\* C6 witness: 12345 was validated and rejected for its length.
C6_Witness ==
  /\ Validated
  /\ isbnIn = <<"1", "2", "3", "4", "5">>
  /\ isbnResult.message = <<"ISBN_LENGTH", 5>>

\* C7: a cleaned 13-character text that holds an 'X' anywhere is rejected
\* with the format message: no checksum mismatch, no success, no exception.
C7_XInThirteenIsFormatError ==
  Validated =>
    LET sig == SigText(isbnIn)
    IN  (Len(sig) = 13 /\ \E k \in 1..13 : sig[k] = "X") =>
          Failure(isbnResult, <<"ISBN13_FORMAT">>)

\* C7 witness: twelve digits followed by 'X' were validated.
C7_Witness ==
  /\ Validated
  /\ Len(SigText(isbnIn)) = 13
  /\ IsDigits(SubSeq(SigText(isbnIn), 1, 12))
  /\ SigText(isbnIn)[13] = "X"
  /\ isbnResult.outcome = "returned"

(***************************************************************************)
(* clean_author_name.  re.sub on a pattern that cannot match the empty     *)
(* string scans from the left: where the pattern matches, the match is     *)
(* dropped and the scan goes on after it; elsewhere the character is kept. *)
(***************************************************************************)
\* Characters of the explored author texts.
AuthorChars == {"[", "]", " ", "\n", ",", ";", "kim", "ji", "eun", "i", "geul", "jeo"}

\* Texts the author field starts from: nothing, and 김영하 ; 박상영, 옮긴이
AuthorSeeds ==
  { <<>>,
    <<"kim", "yeong", "ha", " ", ";", " ", "bak", "sang", "yeong", ",", " ",
      "olm", "gin", "i">> }

\* \s of the re module, on the characters used here
WhiteSpace == {" ", "\t", "\n", "\r"}

\* '.' of the re module without re.DOTALL: any character but the line feed
Dot(c) == c # "\n"

\* (지은이|옮긴이|글|저|역|편저|감수), tried in this order
RoleTokens ==
  << <<"ji", "eun", "i">>, <<"olm", "gin", "i">>, <<"geul">>, <<"jeo">>,
     <<"yeok">>, <<"pyeon", "jeo">>, <<"gam", "su">> >>

\* the greedy \s* at position k: the length of the whitespace run there
RECURSIVE SpaceRun(_, _)
SpaceRun(s, k) ==
  IF k <= Len(s) /\ s[k] \in WhiteSpace THEN 1 + SpaceRun(s, k + 1) ELSE 0

\* whether sequence t occurs in s at position k
OccursAt(s, k, t) ==
  /\ k + Len(t) - 1 <= Len(s)
  /\ \A n \in 1..Len(t) : s[k + n - 1] = t[n]

\* the lazy .*? followed by \]: the first ']' after position k that only
\* Dot characters separate from k; 0 when there is none
RECURSIVE FirstClose(_, _)
FirstClose(s, k) ==
  IF k > Len(s) THEN 0
  ELSE IF s[k] = "]" THEN k
  ELSE IF Dot(s[k]) THEN FirstClose(s, k + 1)
  ELSE 0

\* length of the match of \s*\[.*?\]\s* at position k, 0 when it fails
BracketMatch(s, k) ==
  LET open == k + SpaceRun(s, k)
  IN  IF open > Len(s) \/ s[open] # "[" THEN 0
      ELSE LET close == FirstClose(s, open + 1)
           IN  IF close = 0 THEN 0
               ELSE (close + SpaceRun(s, close + 1)) - k + 1

\* length of the first alternative of RoleTokens that occurs at k, 0 if none
RECURSIVE TokenAt(_, _, _)
TokenAt(s, k, n) ==
  IF n > Len(RoleTokens) THEN 0
  ELSE IF OccursAt(s, k, RoleTokens[n]) THEN Len(RoleTokens[n])
  ELSE TokenAt(s, k, n + 1)

\* length of the match of \s*(지은이|...|감수)\s* at position k, 0 when it fails
RoleMatch(s, k) ==
  LET start == k + SpaceRun(s, k)
      tok == TokenAt(s, start, 1)
  IN  IF tok = 0 THEN 0
      ELSE (start + tok - 1 + SpaceRun(s, start + tok)) - k + 1

\* re.sub(r'\s*\[.*?\]\s*', '', s), scanning from position k
RECURSIVE SubBracketsFrom(_, _)
SubBracketsFrom(s, k) ==
  IF k > Len(s) THEN <<>>
  ELSE LET n == BracketMatch(s, k)
       IN  IF n > 0 THEN SubBracketsFrom(s, k + n)
           ELSE <<s[k]>> \o SubBracketsFrom(s, k + 1)

\* re.sub(r'\s*(지은이|옮긴이|글|저|역|편저|감수)\s*', '', s), from position k
RECURSIVE SubRolesFrom(_, _)
SubRolesFrom(s, k) ==
  IF k > Len(s) THEN <<>>
  ELSE LET n == RoleMatch(s, k)
       IN  IF n > 0 THEN SubRolesFrom(s, k + n)
           ELSE <<s[k]>> \o SubRolesFrom(s, k + 1)

\* s.strip(chars)
RECURSIVE LStrip(_, _)
LStrip(s, chars) ==
  IF s # <<>> /\ Head(s) \in chars THEN LStrip(Tail(s), chars) ELSE s

RECURSIVE RStrip(_, _)
RStrip(s, chars) ==
  IF s # <<>> /\ s[Len(s)] \in chars THEN RStrip(SubSeq(s, 1, Len(s) - 1), chars)
  ELSE s

Strip(s, chars) == RStrip(LStrip(s, chars), chars)

clean_author_name(author_str) ==
  IF author_str = <<>> THEN <<>>
  ELSE Strip(SubRolesFrom(SubBracketsFrom(author_str, 1), 1), {" ", ",", ";"})

(***************************************************************************)
(* The author text on its way through the program: a raw text (typed, or   *)
(* the author of a lookup result) is cleaned for the add form, the cleaned *)
(* text is stored with the record, and the stored text is cleaned again    *)
(* when the wiki search is built from the record.                          *)
(***************************************************************************)
TypeAuthor ==
  /\ authorPhase = "raw"
  /\ Len(authorIn) < MaxAuthorLen
  /\ \E c \in AuthorChars : authorIn' = Append(authorIn, c)
  /\ UNCHANGED <<authorOut, authorPhase, isbnVars, appVars>>

\* clean_author = clean_author_name(auto_author)
CleanAuthor ==
  /\ authorPhase = "raw"
  /\ authorOut' = clean_author_name(authorIn)
  /\ authorPhase' = "cleaned"
  /\ UNCHANGED <<authorIn, isbnVars, appVars>>

\* 'author': author  of the new record
StoreAuthor ==
  /\ authorPhase = "cleaned"
  /\ authorIn' = authorOut
  /\ authorPhase' = "stored"
  /\ UNCHANGED <<authorOut, isbnVars, appVars>>

\* author_clean = clean_author_name(book_data['author'])
CleanStored ==
  /\ authorPhase = "stored"
  /\ authorOut' = clean_author_name(authorIn)
  /\ authorPhase' = "recleaned"
  /\ UNCHANGED <<authorIn, isbnVars, appVars>>

IsbnIdle ==
  /\ isbnIn = <<>>
  /\ isbnResult = NoResult
  /\ prevIn = <<>>
  /\ prevResult = NoResult
  /\ edits = 0

InitAuthor ==
  /\ authorIn \in AuthorSeeds
  /\ authorOut = <<>>
  /\ authorPhase = "raw"
  /\ IsbnIdle
  /\ AppIdle

NextAuthor == TypeAuthor \/ CleanAuthor \/ StoreAuthor \/ CleanStored

SpecAuthor == InitAuthor /\ [][NextAuthor]_vars

(***************************************************************************)
(* Vocabulary of the properties of clean_author_name.                      *)
(***************************************************************************)
Cleaned == authorPhase \in {"cleaned", "recleaned"}

RoleWords ==
  { <<"ji", "eun", "i">>, <<"olm", "gin", "i">>, <<"geul">>, <<"jeo">>,
    <<"yeok">>, <<"pyeon", "jeo">>, <<"gam", "su">> }

\* a text that is one word: no whitespace, separator or bracket in it
OneWord(s) ==
  /\ s # <<>>
  /\ \A k \in 1..Len(s) : s[k] \notin {" ", "\t", "\n", "\r", ",", ";", "[", "]"}

\* a '[' that a ']' follows somewhere later
HasBracketGroup(s) ==
  \E k \in 1..Len(s) : \E m \in (k + 1)..Len(s) : s[k] = "[" /\ s[m] = "]"

\* C8: clean_author_name is idempotent: cleaning the cleaned (stored) text
\* again returns it unchanged.
C8_CleanIsIdempotent ==
  authorPhase = "recleaned" => authorOut = authorIn

\* C9: a role token is removed only as an isolated word: a single word that
\* is longer than a role token it contains is returned intact.
C9_TokensInsideWordsKept ==
  (authorPhase = "cleaned" /\ OneWord(authorIn) /\ authorIn \notin RoleWords) =>
    authorOut = authorIn

\* C10: the output holds no bracketed annotation: no '[' that a ']' follows.
C10_NoBracketGroupLeft ==
  Cleaned => ~HasBracketGroup(authorOut)

\* the characters that separate words
IsSep(c) == c \in {" ", "\t", "\n", "\r", ",", ";"}

\* the characters of the words of s that are not role words, from position k
\* on, word being the word read so far
RECURSIVE NameTextFrom(_, _, _)
NameTextFrom(s, k, word) ==
  LET done == IF word \in RoleWords THEN <<>> ELSE word
  IN  IF k > Len(s) THEN done
      ELSE IF IsSep(s[k]) THEN done \o NameTextFrom(s, k + 1, <<>>)
      ELSE NameTextFrom(s, k + 1, Append(word, s[k]))

NameText(s) == NameTextFrom(s, 1, <<>>)

\* the commas and semicolons of s, in order
Separators(s) == SelectSeq(s, LAMBDA c : c \in {",", ";"})

\* t is s without some of its first and some of its last elements
IsMiddleOf(t, s) ==
  \E a \in 1..(Len(s) + 1) : \E b \in (a - 1)..Len(s) : t = SubSeq(s, a, b)

HasBracket(s) == \E k \in 1..Len(s) : s[k] \in {"[", "]"}

\* C11: clean_author_name never splits or drops names: of a text without
\* brackets the words that are not role words keep all their characters, the
\* commas and semicolons between them are kept (only leading and trailing
\* ones go), and 김영하 ; 박상영, 옮긴이 becomes 김영하 ; 박상영.
C11_NamesAndSeparatorsKept ==
  /\ (authorPhase = "cleaned" /\ ~HasBracket(authorIn)) =>
       /\ NameText(authorOut) = NameText(authorIn)
       /\ IsMiddleOf(Separators(authorOut), Separators(authorIn))
  /\ ( /\ authorPhase = "cleaned"
       /\ authorIn = <<"kim", "yeong", "ha", " ", ";", " ", "bak", "sang",
                       "yeong", ",", " ", "olm", "gin", "i">> ) =>
       authorOut = <<"kim", "yeong", "ha", " ", ";", " ", "bak", "sang", "yeong">>

(***************************************************************************)
(* The catalog.  A stored record has the columns of the books table; the   *)
(* texts the program splits, compares or reformats (isbn, author, tags,    *)
(* added_date) are character sequences, the other texts are atoms.  The    *)
(* three states of reading are written "want" 읽고 싶음, "reading" 읽는 중     *)
(* and "read" 읽음; "no_info" is the text 정보 없음.                           *)
(***************************************************************************)
Statuses == {"want", "reading", "read"}

\* Moments the clock of the host can show, in increasing order:
\* datetime.now() read as (year, month, day, hour, minute)
Times ==
  << [y |-> 2024, m |-> 4, d |-> 30, H |-> 23, M |-> 59],
     [y |-> 2024, m |-> 5, d |-> 1,  H |-> 0,  M |-> 0],
     [y |-> 2024, m |-> 5, d |-> 31, H |-> 10, M |-> 0],
     [y |-> 2024, m |-> 6, d |-> 1,  H |-> 0,  M |-> 0],
     [y |-> 2024, m |-> 8, d |-> 1,  H |-> 0,  M |-> 0] >>

\* f"{n:02d}" and "%m", "%d", "%H", "%M" of strftime
Pad2(n) == <<DigitStr((n \div 10) % 10), DigitStr(n % 10)>>

\* f"{year}" and "%Y" of strftime, for a year of four digits
Year4(y) ==
  <<DigitStr((y \div 1000) % 10), DigitStr((y \div 100) % 10),
    DigitStr((y \div 10) % 10), DigitStr(y % 10)>>

\* datetime.now().strftime("%Y-%m-%d %H:%M")
Strftime(t) ==
  Year4(t.y) \o <<"-">> \o Pad2(t.m) \o <<"-">> \o Pad2(t.d) \o <<" ">>
    \o Pad2(t.H) \o <<":">> \o Pad2(t.M)

\* ord(c) for the characters of a timestamp
Ord(c) ==
  CASE c = " " -> 32 [] c = "-" -> 45 [] c = ":" -> 58
    [] OTHER -> 48 + DigitVal(c)

\* a <= b of two str values: the comparison by code points, a proper
\* prefix being the smaller text
RECURSIVE StrLe(_, _)
StrLe(a, b) ==
  IF a = <<>> THEN TRUE
  ELSE IF b = <<>> THEN FALSE
  ELSE IF Head(a) = Head(b) THEN StrLe(Tail(a), Tail(b))
  ELSE Ord(Head(a)) < Ord(Head(b))

\* s.split(',')
RECURSIVE SplitComma(_, _)
SplitComma(s, piece) ==
  IF s = <<>> THEN <<piece>>
  ELSE IF Head(s) = "," THEN <<piece>> \o SplitComma(Tail(s), <<>>)
  ELSE SplitComma(Tail(s), Append(piece, Head(s)))

\* tag.strip()
StripWs(s) == Strip(s, WhiteSpace)

\* ', '.join(parts)
RECURSIVE JoinComma(_)
JoinComma(parts) ==
  IF parts = <<>> THEN <<>>
  ELSE IF Len(parts) = 1 THEN parts[1]
  ELSE parts[1] \o <<",", " ">> \o JoinComma(Tail(parts))

\* [tag.strip() for tag in new_tags_input.split(',') if tag.strip()]
NewTags(new_tags_input) ==
  LET pieces == SplitComma(new_tags_input, <<>>)
      stripped == [k \in 1..Len(pieces) |-> StripWs(pieces[k])]
  IN  SelectSeq(stripped, LAMBDA t : t # <<>>)

\* tags_str of the add form and of the edit form
TagsStr(selected_tags, new_tags_input) ==
  LET all_tags == IF new_tags_input # <<>>
                    THEN selected_tags \o NewTags(new_tags_input)
                    ELSE selected_tags
  IN  JoinComma(all_tags)

(***************************************************************************)
(* The lookup collaborator.  The reply of the library service is an input: *)
(* the request times out, fails, answers with text that is not JSON,       *)
(* answers without documents, or answers with a document.                  *)
(***************************************************************************)
\* loan_count of a document: an integer, a text that is no number, absent,
\* or the float infinity (int() raises OverflowError)
LoanInt(n) == [type |-> "int", val |-> n]
LoanText == [type |-> "text", val |-> 0]
LoanMissing == [type |-> "missing", val |-> 0]
LoanInf == [type |-> "inf", val |-> 0]

ApiDocs ==
  { [bookname |-> "almond",
     authors |-> <<"kim", " ", ";", " ", "bak", " ", "ji", "eun", "i">>,
     publisher |-> "changbi", publication_year |-> "2017",
     class_nm |-> "literature", loan_count |-> LoanInt(12),
     bookImageURL |-> "cover"],
    [bookname |-> "demian", authors |-> <<>>,
     publisher |-> "minumsa", publication_year |-> "2000",
     class_nm |-> "", loan_count |-> LoanInt(0 - 3),
     bookImageURL |-> ""],
    [bookname |-> "demian", authors |-> <<"[", "jeo", "]">>,
     publisher |-> "minumsa", publication_year |-> "2000",
     class_nm |-> "philosophy", loan_count |-> LoanText,
     bookImageURL |-> ""] }

\* further documents: one without any key (each key written as the default
\* book_info.get gives it), one whose authors are only separators, one
\* whose loan_count is infinite
OddDocs ==
  { [bookname |-> "no_info", authors |-> <<>>,
     publisher |-> "no_info", publication_year |-> "no_info",
     class_nm |-> "", loan_count |-> LoanMissing,
     bookImageURL |-> ""],
    [bookname |-> "almond", authors |-> <<" ", ";", ",", " ", "geul">>,
     publisher |-> "changbi", publication_year |-> "2017",
     class_nm |-> "literature", loan_count |-> LoanInt(0),
     bookImageURL |-> "cover"],
    [bookname |-> "almond", authors |-> <<"kim">>,
     publisher |-> "changbi", publication_year |-> "2017",
     class_nm |-> "literature", loan_count |-> LoanInf,
     bookImageURL |-> "cover"] }

ApiReplies ==
  { [kind |-> "timeout"], [kind |-> "request_error"], [kind |-> "bad_json"],
    [kind |-> "no_docs"] }
  \cup { [kind |-> "docs", doc |-> d] : d \in ApiDocs }

\* every behaviour of the service: the replies above, a JSON value of
\* another shape (a list where a dict is expected), the further documents
AllReplies ==
  ApiReplies \cup { [kind |-> "bad_shape"] }
    \cup { [kind |-> "docs", doc |-> d] : d \in OddDocs }

\* (지은이|옮긴이|글|저|역) of the collector, tried in this order
CollectorRoleTokens ==
  << <<"ji", "eun", "i">>, <<"olm", "gin", "i">>, <<"geul">>, <<"jeo">>,
     <<"yeok">> >>

RECURSIVE CollectorTokenAt(_, _, _)
CollectorTokenAt(s, k, n) ==
  IF n > Len(CollectorRoleTokens) THEN 0
  ELSE IF OccursAt(s, k, CollectorRoleTokens[n])
         THEN Len(CollectorRoleTokens[n])
  ELSE CollectorTokenAt(s, k, n + 1)

CollectorRoleMatch(s, k) ==
  LET start == k + SpaceRun(s, k)
      tok == CollectorTokenAt(s, start, 1)
  IN  IF tok = 0 THEN 0
      ELSE (start + tok - 1 + SpaceRun(s, start + tok)) - k + 1

\* re.sub(r'\s*(지은이|옮긴이|글|저|역)\s*', '', s), from position k
RECURSIVE CollectorSubRolesFrom(_, _)
CollectorSubRolesFrom(s, k) ==
  IF k > Len(s) THEN <<>>
  ELSE LET n == CollectorRoleMatch(s, k)
       IN  IF n > 0 THEN CollectorSubRolesFrom(s, k + n)
           ELSE <<s[k]>> \o CollectorSubRolesFrom(s, k + 1)

\* authors_raw.replace(';', ', ')
RECURSIVE ReplaceSemicolons(_)
ReplaceSemicolons(s) ==
  IF s = <<>> THEN <<>>
  ELSE (IF Head(s) = ";" THEN <<",", " ">> ELSE <<Head(s)>>)
         \o ReplaceSemicolons(Tail(s))

NoInfo == <<"no_info">>

\* the cleaning without the two defaults
CollectorAuthorsNoDefault(authors_raw) ==
  Strip(CollectorSubRolesFrom(
          SubBracketsFrom(ReplaceSemicolons(authors_raw), 1), 1),
        {" ", ",", ";"})

\* the author of the metadata
CollectorAuthors(authors_raw) ==
  IF authors_raw = <<>> THEN NoInfo
  ELSE LET authors ==
             Strip(CollectorSubRolesFrom(
                     SubBracketsFrom(ReplaceSemicolons(authors_raw), 1), 1),
                   {" ", ",", ";"})
       IN  IF authors = <<>> THEN NoInfo ELSE authors

\* int(loan_count) if loan_count else 0, ValueError and TypeError giving 0
LoanCount(raw) ==
  IF raw.type = "int" THEN raw.val ELSE 0

LookupFailure(message, suggestion) ==
  [outcome |-> "failure", message |-> message, suggestion |-> suggestion]

\* str(isbn).replace('-', '').replace(' ', '')
CollectorClean(isbn) == SelectSeq(isbn, LAMBDA c : c \notin {"-", " "})

get_book_metadata(isbn, api) ==
  LET isbn_clean == CollectorClean(isbn)
  IN  IF ~AllInt(isbn_clean) \/ Len(isbn_clean) \notin {10, 13}
        THEN LookupFailure("bad_format", "ten_or_thirteen_digits")
      ELSE IF api.kind = "timeout" THEN LookupFailure("timeout", "retry_later")
      ELSE IF api.kind = "request_error"
        THEN LookupFailure("request_error", "check_network")
      ELSE IF api.kind = "bad_json"
        THEN LookupFailure("bad_json", "retry_later")
      ELSE IF api.kind = "no_docs"
        THEN LookupFailure("not_found", "enter_by_hand")
      ELSE IF api.kind = "bad_shape" \/ api.doc.loan_count.type = "inf"
        THEN LookupFailure("unexpected", "enter_by_hand")
      ELSE [outcome |-> "success",
            title |-> api.doc.bookname,
            author |-> CollectorAuthors(api.doc.authors),
            publisher |-> api.doc.publisher,
            publication_year |-> api.doc.publication_year,
            isbn13 |-> isbn_clean,
            subject |-> IF api.doc.class_nm # "" THEN api.doc.class_nm
                        ELSE "no_info",
            loan_count |-> LoanCount(api.doc.loan_count),
            cover_url |-> api.doc.bookImageURL]

search_book_by_isbn(isbn13, api) == get_book_metadata(isbn13, api)

(***************************************************************************)
(* Storage.  A file is absent or has a content; a SQLite file has tables,  *)
(* the rows of books and the AUTOINCREMENT counter of books.  connDb is    *)
(* the database of the connection that init_database opened once and that  *)
(* st.cache_resource keeps for the life of the process.  liveFile is what  *)
(* the path reading_log.db names: the file of the connection (ConnFile),   *)
(* nothing, or another file.  tempFile is reading_log_temp.db, safetyFile  *)
(* the copy reading_log_before_restore_*.db.  Files follow the POSIX       *)
(* rules: a removed file stays readable through a connection opened        *)
(* before; SQLite refuses to write through a connection whose file is no    *)
(* longer the one its path names.                                          *)
(***************************************************************************)
\* what the path reading_log.db names
LiveContent == IF liveFile = ConnFile THEN connDb ELSE liveFile

\* conn.execute of a statement that writes succeeds
Writable == liveFile = ConnFile

\* init_database: connect (creating the file if needed), CREATE TABLE IF
\* NOT EXISTS books / reading_goals
InitDatabase(f) ==
  IF f.kind = "sqlite" THEN [f EXCEPT !.tables = @ \cup SchemaTables]
  ELSE EmptyDb

\* INSERT INTO books (...) VALUES (...); conn.commit()
add_book_to_db(db, book_data) ==
  LET row == [id |-> db.seq + 1,
              isbn |-> book_data.isbn,
              title |-> book_data.title,
              author |-> book_data.author,
              publisher |-> book_data.publisher,
              publication_year |-> book_data.publication_year,
              subject |-> book_data.subject,
              loan_count |-> book_data.loan_count,
              cover_url |-> book_data.cover_url,
              rating |-> book_data.rating,
              status |-> book_data.status,
              memo |-> book_data.memo,
              tags |-> book_data.tags,
              pages |-> book_data.pages,
              added_date |-> book_data.added_date,
              updated_date |-> book_data.added_date,
              wiki_links |-> NoLinks,
              last_wiki_search |-> <<>>]
  IN  [db EXCEPT !.books = Append(@, row), !.seq = @ + 1]

\* (faulty variant: the statement without WHERE id=?)
UpdateEveryBook(db, book_id, book_data, stamp) ==
  [db EXCEPT !.books =
     [k \in 1..Len(@) |->
        [@[k] EXCEPT !.isbn = book_data.isbn,
                     !.title = book_data.title,
                     !.author = book_data.author,
                     !.publisher = book_data.publisher,
                     !.publication_year = book_data.publication_year,
                     !.subject = book_data.subject,
                     !.loan_count = book_data.loan_count,
                     !.cover_url = book_data.cover_url,
                     !.rating = book_data.rating,
                     !.status = book_data.status,
                     !.memo = book_data.memo,
                     !.tags = book_data.tags,
                     !.pages = book_data.pages,
                     !.updated_date = stamp]]]

\* UPDATE books SET ... WHERE id=?; conn.commit()
update_book_in_db(db, book_id, book_data, stamp) ==
  [db EXCEPT !.books =
     [k \in 1..Len(@) |->
        IF @[k].id # book_id THEN @[k]
        ELSE [@[k] EXCEPT !.isbn = book_data.isbn,
                          !.title = book_data.title,
                          !.author = book_data.author,
                          !.publisher = book_data.publisher,
                          !.publication_year = book_data.publication_year,
                          !.subject = book_data.subject,
                          !.loan_count = book_data.loan_count,
                          !.cover_url = book_data.cover_url,
                          !.rating = book_data.rating,
                          !.status = book_data.status,
                          !.memo = book_data.memo,
                          !.tags = book_data.tags,
                          !.pages = book_data.pages,
                          !.updated_date = stamp]]]

\* DELETE FROM books WHERE id=?; conn.commit()
delete_book_from_db(db, book_id) ==
  [db EXCEPT !.books = SelectSeq(@, LAMBDA r : r.id # book_id)]

\* the tags get_all_tags offers: every stripped piece of every tags text
get_all_tags(db) ==
  UNION { { StripWs(SplitComma(db.books[k].tags, <<>>)[n]) :
              n \in 1..Len(SplitComma(db.books[k].tags, <<>>)) } :
          k \in { j \in 1..Len(db.books) : db.books[j].tags # <<>> } }

\* the clock of the host
Now == Times[clock]

(***************************************************************************)
(* The add page: the ISBN field, the search button, the form.              *)
(***************************************************************************)
\* Texts typed into the ISBN field of the add page
CatalogIsbns ==
  { <<>>,
    <<"9","7","8","-","8","9","-","3","6","4","-","3","4","2","6","-","7">>,
    <<"8","9","8","3","7","1","1","5","4","0">>,
    <<"1","2","3","4","5">> }

\* What the user leaves in the widgets of the add form.  An empty author
\* means the field was left at the value the page put there.
AddForms ==
  { [title |-> "", author |-> <<>>, rating |-> 3, status |-> "want",
     selected_tags |-> <<>>, new_tags_input |-> <<>>, pages |-> 0,
     memo |-> ""],
    [title |-> "almond", author |-> <<>>, rating |-> 3, status |-> "want",
     selected_tags |-> <<>>, new_tags_input |-> <<>>, pages |-> 0,
     memo |-> ""] }

Found == searchResult # NoResult /\ searchResult.outcome = "success"

\* the text of the ISBN field is replaced
SetIsbn ==
  /\ restorePc = "idle"
  /\ reportOut = NoReport
  /\ \E text \in CatalogIsbns : text # isbnIn /\ isbnIn' = text
  /\ UNCHANGED <<isbnResult, prevIn, prevResult, edits, authorVars,
                 searchResult, searchedText, storeVars, restoreVars,
                 backupVars, clock, reportOut,
                 goalVars, wikiEntities>>

\* the search button if a text that is no identifier left the result of
\* the search before in the session
SearchKeepingResult(replies) ==
  /\ restorePc = "idle"
  /\ reportOut = NoReport
  /\ isbnIn # <<>>
  /\ LET isbn_result == validate_and_format_isbn(isbnIn)
     IN  IF isbn_result.outcome = "raised" THEN searchResult' = NoResult
         ELSE IF isbn_result.valid
           THEN \E api \in replies :
                  searchResult' = search_book_by_isbn(isbn_result.isbn13, api)
         ELSE searchResult' = searchResult
  /\ searchedText' = isbnIn
  /\ UNCHANGED <<isbnVars, authorVars, storeVars, restoreVars, backupVars,
                 clock, reportOut, goalVars, wikiEntities>>

\* the search button: validate, then ask the collaborator, which answers
\* with one of replies
SearchWith(replies) ==
  /\ restorePc = "idle"
  /\ reportOut = NoReport
  /\ isbnIn # <<>>
  /\ LET isbn_result == validate_and_format_isbn(isbnIn)
     IN  IF isbn_result.outcome = "raised" THEN searchResult' = NoResult
         ELSE IF isbn_result.valid
           THEN \E api \in replies :
                  searchResult' = search_book_by_isbn(isbn_result.isbn13, api)
         ELSE searchResult' = NoResult
  /\ searchedText' = isbnIn
  /\ UNCHANGED <<isbnVars, authorVars, storeVars, restoreVars, backupVars,
                 clock, reportOut,
                 goalVars, wikiEntities>>

\* new_book of the add form
NewBook(form) ==
  LET auto_author == IF Found THEN searchResult.author ELSE <<>>
      clean_author == IF auto_author # <<>>
                        THEN clean_author_name(auto_author) ELSE <<>>
  IN  [isbn |-> isbnIn,
       title |-> form.title,
       author |-> IF form.author # <<>> THEN form.author ELSE clean_author,
       publisher |-> IF Found THEN searchResult.publisher ELSE "",
       publication_year |-> IF Found THEN searchResult.publication_year
                            ELSE "",
       subject |-> IF Found THEN searchResult.subject ELSE "",
       loan_count |-> IF Found THEN searchResult.loan_count ELSE 0,
       cover_url |-> IF Found THEN searchResult.cover_url ELSE "",
       rating |-> form.rating,
       status |-> form.status,
       memo |-> form.memo,
       tags |-> TagsStr(form.selected_tags, form.new_tags_input),
       pages |-> form.pages,
       added_date |-> Strftime(Now)]

\* the add button with the widgets holding one of forms; MaxBooks bounds
\* the records ever inserted into a database
AddBookFrom(forms) ==
  /\ restorePc = "idle"
  /\ reportOut = NoReport
  /\ connDb.seq < MaxBooks
  /\ \E form \in forms :
       /\ \A n \in 1..Len(form.selected_tags) :
            form.selected_tags[n] \in get_all_tags(connDb)
       /\ IF form.title # "" /\ Writable
            THEN /\ connDb' = add_book_to_db(connDb, NewBook(form))
                 /\ searchResult' = NoResult
                 /\ searchedText' = <<>>
            ELSE UNCHANGED <<connDb, searchResult, searchedText>>
  /\ UNCHANGED <<isbnVars, authorVars, liveFile, tempFile, safetyFile,
                 restoreVars, backupVars, clock, reportOut,
                 goalVars, wikiEntities>>

AddBook == AddBookFrom(AddForms)

(***************************************************************************)
(* The edit page.  Its slider, select box and number field raise when the  *)
(* stored value is outside their range, and the page then shows neither    *)
(* the update nor the delete button.                                       *)
(***************************************************************************)
Editable(row) ==
  /\ row.rating \in 1..5
  /\ row.status \in Statuses
  /\ row.pages >= 0

\* What the user leaves in the widgets of the edit form
EditForms ==
  { [new_title |-> "", new_rating |-> 4, new_status |-> "read",
     new_tags_input |-> <<>>, new_pages |-> 120],
    [new_title |-> "demian", new_rating |-> 1, new_status |-> "reading",
     new_tags_input |-> <<>>, new_pages |-> 0] }

\* current_tag_list, valid_current_tags: the default of the tag multiselect
CurrentTags(db, row) ==
  IF row.tags = <<>> THEN <<>>
  ELSE LET pieces == SplitComma(row.tags, <<>>)
           stripped == [k \in 1..Len(pieces) |-> StripWs(pieces[k])]
       IN  SelectSeq(stripped, LAMBDA t : t \in get_all_tags(db))

\* updated_book of the edit form
UpdatedBook(db, row, form) ==
  [isbn |-> row.isbn,
   title |-> form.new_title,
   author |-> row.author,
   publisher |-> row.publisher,
   publication_year |-> row.publication_year,
   subject |-> row.subject,
   loan_count |-> row.loan_count,
   cover_url |-> row.cover_url,
   rating |-> form.new_rating,
   status |-> form.new_status,
   memo |-> row.memo,
   tags |-> TagsStr(CurrentTags(db, row), form.new_tags_input),
   pages |-> form.new_pages]

\* the update button
EditBook ==
  /\ restorePc = "idle"
  /\ reportOut = NoReport
  /\ \E k \in 1..Len(connDb.books), form \in EditForms :
       /\ Editable(connDb.books[k])
       /\ Writable
       /\ connDb' = update_book_in_db(connDb, connDb.books[k].id,
                      UpdatedBook(connDb, connDb.books[k], form),
                      Strftime(Now))
  /\ UNCHANGED <<isbnVars, authorVars, searchResult, searchedText, liveFile,
                 tempFile, safetyFile, restoreVars, backupVars, clock,
                 reportOut,
                 goalVars, wikiEntities>>

\* the delete button, after the confirmation box was ticked
DeleteBook ==
  /\ restorePc = "idle"
  /\ reportOut = NoReport
  /\ \E k \in 1..Len(connDb.books) :
       /\ Editable(connDb.books[k])
       /\ Writable
       /\ connDb' = delete_book_from_db(connDb, connDb.books[k].id)
  /\ UNCHANGED <<isbnVars, authorVars, searchResult, searchedText, liveFile,
                 tempFile, safetyFile, restoreVars, backupVars, clock,
                 reportOut,
                 goalVars, wikiEntities>>

\* the process is started again: a new session, and init_database opens
\* what reading_log.db names now
Restart ==
  /\ restorePc = "idle"
  /\ connDb' = InitDatabase(LiveContent)
  /\ liveFile' = ConnFile
  /\ searchResult' = NoResult
  /\ searchedText' = <<>>
  /\ reportOut' = NoReport
  /\ isbnIn' = <<>>
  /\ wikiEntities' = NoEntities
  /\ UNCHANGED <<isbnResult, prevIn, prevResult, edits, authorVars,
                 tempFile, safetyFile, restoreVars, backupVars, clock,
                 goalVars>>

(***************************************************************************)
(* Backup and restore.  create_backup hands out the SQL text that          *)
(* iterdump writes (kind "sql"), not a SQLite file.  restore_from_backup   *)
(* is followed statement by statement: restorePc is the statement reached. *)
(* A statement that touches the file system can fail; the handler of the   *)
(* function then removes the temporary file and the function returns       *)
(* False.  Removing the temporary file itself, which the function has just *)
(* written, is taken to succeed.  liveBefore remembers what the path       *)
(* reading_log.db named when the restore began, backupOf the rows of the   *)
(* catalog when the backup was taken, ioFault whether a statement of the    *)
(* running restore failed in the file system.                              *)
(***************************************************************************)
\* for line in backup_conn.iterdump(): output.write(...)
create_backup(db) == [db EXCEPT !.kind = "sql"]

\* Files a user can pick besides a downloaded backup: a SQLite file without
\* the books table, an empty file, a SQLite file of another program whose
\* books table holds values the forms never produce, and a copy of a
\* reading_log.db
ForeignRow ==
  [id |-> 1, isbn |-> <<>>, title |-> "imported", author |-> <<>>,
   publisher |-> "", publication_year |-> "", subject |-> "",
   loan_count |-> 0, cover_url |-> "", rating |-> 9, status |-> "dropped",
   memo |-> "", tags |-> <<>>, pages |-> 0 - 1,
   added_date |-> Strftime(Times[1]), updated_date |-> Strftime(Times[1]),
   wiki_links |-> NoLinks, last_wiki_search |-> <<>>]

CopiedRow ==
  [ForeignRow EXCEPT !.title = "copied", !.rating = 4, !.status = "read",
                     !.pages = 100]

EmptyFile == [kind |-> "empty"]

ForeignFiles ==
  { Sqlite({"notes"}, <<>>, 0),
    EmptyFile,
    Sqlite({"books"}, <<ForeignRow>>, 1),
    Sqlite(SchemaTables, <<CopiedRow>>, 1) }

\* the backup button
CreateBackup ==
  /\ restorePc = "idle"
  /\ reportOut = NoReport
  /\ download' = create_backup(connDb)
  /\ backupOf' = connDb.books
  /\ download' # download
  /\ UNCHANGED <<isbnVars, authorVars, searchResult, searchedText, storeVars,
                 restoreVars, clock, reportOut,
                 goalVars, wikiEntities>>

\* (faulty variant: the table check is passed whatever the file holds)
TablesOfUnchecked(f) == SchemaTables

\* the names cursor.fetchall() returns for the temporary file; sqlite3
\* treats an empty file as a database without tables
TablesOf(f) == IF f.kind = "sqlite" THEN f.tables ELSE {}

\* the statements of restore_from_backup raise DatabaseError on a file
\* that is neither empty nor a SQLite file
Readable(f) == f.kind \in {"sqlite", "empty"}

\* return False (after the handler, where an exception was raised)
RestoreFails ==
  /\ tempFile' = Absent
  /\ restoreResult' = "false"
  /\ restorePc' = "done"

\* the restore button; shutil.copy2("reading_log.db", ...)
RestoreCopy ==
  /\ restorePc = "idle"
  /\ reportOut = NoReport
  /\ restores < MaxRestores
  /\ \E f \in ForeignFiles \cup ({download} \ {Absent}) : uploaded' = f
  /\ restores' = restores + 1
  /\ liveBefore' = LiveContent
  /\ \E ok \in BOOLEAN :
       /\ ioFault' = ~ok
       /\ IF ok /\ LiveContent # Absent
            THEN /\ safetyFile' = LiveContent
                 /\ restorePc' = "copied"
                 /\ UNCHANGED <<tempFile, restoreResult>>
            ELSE RestoreFails /\ UNCHANGED safetyFile
  /\ UNCHANGED <<isbnVars, authorVars, searchResult, searchedText, connDb,
                 liveFile, backupVars, clock, reportOut,
                 goalVars, wikiEntities>>

\* with open("reading_log_temp.db", "wb") as f: f.write(...)
RestoreWrite ==
  /\ restorePc = "copied"
  /\ \E ok \in BOOLEAN :
       /\ ioFault' = ~ok
       /\ IF ok THEN /\ tempFile' = uploaded
                     /\ restorePc' = "written"
                     /\ UNCHANGED restoreResult
          ELSE RestoreFails
  /\ UNCHANGED <<isbnVars, authorVars, searchResult, searchedText, connDb,
                 liveFile, safetyFile, uploaded, restores, liveBefore,
                 backupVars, clock, reportOut,
                 goalVars, wikiEntities>>

\* sqlite3.connect, SELECT name FROM sqlite_master, the test for 'books'
RestoreInspect ==
  /\ restorePc = "written"
  /\ IF Readable(tempFile) /\ "books" \in TablesOf(tempFile)
       THEN restorePc' = "inspected" /\ UNCHANGED <<tempFile, restoreResult>>
       ELSE RestoreFails
  /\ UNCHANGED <<isbnVars, authorVars, searchResult, searchedText, connDb,
                 liveFile, safetyFile, uploaded, restores, liveBefore,
                 ioFault, backupVars, clock, reportOut,
                 goalVars, wikiEntities>>

\* os.remove("reading_log.db")
RestoreRemove ==
  /\ restorePc = "inspected"
  /\ \E ok \in BOOLEAN :
       /\ ioFault' = ~ok
       /\ IF ok /\ LiveContent # Absent
            THEN /\ liveFile' = Absent
                 /\ restorePc' = "removed"
                 /\ UNCHANGED <<tempFile, restoreResult>>
            ELSE RestoreFails /\ UNCHANGED liveFile
  /\ UNCHANGED <<isbnVars, authorVars, searchResult, searchedText, connDb,
                 safetyFile, uploaded, restores, liveBefore, backupVars,
                 clock, reportOut,
                 goalVars, wikiEntities>>

\* os.rename("reading_log_temp.db", "reading_log.db"); return True
RestoreRename ==
  /\ restorePc = "removed"
  /\ \E ok \in BOOLEAN :
       /\ ioFault' = ~ok
       /\ IF ok THEN /\ liveFile' = tempFile
                     /\ tempFile' = Absent
                     /\ restoreResult' = "true"
                     /\ restorePc' = "done"
          ELSE RestoreFails /\ UNCHANGED liveFile
  /\ UNCHANGED <<isbnVars, authorVars, searchResult, searchedText, connDb,
                 safetyFile, uploaded, restores, liveBefore, backupVars,
                 clock, reportOut,
                 goalVars, wikiEntities>>

\* the caller shows the outcome: st.success and st.rerun, or st.error.  The
\* safety copy stays on disk under its own name and is never read again;
\* its content is not followed further.
RestoreReport ==
  /\ restorePc = "done"
  /\ restorePc' = "idle"
  /\ restoreResult' = "none"
  /\ uploaded' = Absent
  /\ liveBefore' = Absent
  /\ ioFault' = FALSE
  /\ safetyFile' = IF safetyFile = Absent THEN Absent ELSE Kept
  /\ UNCHANGED <<isbnVars, authorVars, searchResult, searchedText, connDb,
                 liveFile, tempFile, restores, backupVars, clock, reportOut,
                 goalVars, wikiEntities>>

(***************************************************************************)
(* Reports.  df is what get_books_from_db returns: the rows ordered by     *)
(* added_date, latest first; SQL leaves the order of rows with the same    *)
(* added_date open.  The aggregation functions are applied to df as they   *)
(* stand, also to an empty df.  reportOut is the value last returned.      *)
(***************************************************************************)
\* the orders a query can return the rows in
Views(db) ==
  { [k \in 1..Len(db.books) |-> db.books[p[k]]] :
      p \in { q \in [1..Len(db.books) -> 1..Len(db.books)] :
                /\ \A a, b \in 1..Len(db.books) : a # b => q[a] # q[b]
                /\ \A a \in 1..(Len(db.books) - 1) :
                     StrLe(db.books[q[a + 1]].added_date,
                           db.books[q[a]].added_date) } }

\* start_date = f"{year}-{month:02d}-01"
StartDate(year, month) == Year4(year) \o <<"-">> \o Pad2(month) \o <<"-", "0", "1">>

\* end_date = f"{year}-{month:02d}-31"
EndDate(year, month) == Year4(year) \o <<"-">> \o Pad2(month) \o <<"-", "3", "1">>

\* df[(df['added_date'] >= start_date) & (df['added_date'] <= end_date)]
MonthFilter(df, year, month) ==
  SelectSeq(df, LAMBDA r : /\ StrLe(StartDate(year, month), r.added_date)
                           /\ StrLe(r.added_date, EndDate(year, month)))

RECURSIVE SumOf(_, _)
SumOf(rows, field) ==
  IF rows = <<>> THEN 0 ELSE Head(rows)[field] + SumOf(Tail(rows), field)

\* a mean is kept as the fraction sum / count; 0 / 0 is the NaN that
\* Series.mean() returns for no values
Fraction(num, den) == [num |-> num, den |-> den]
Zero == Fraction(0, 1)
MeanOf(rows, field) == Fraction(SumOf(rows, field), Len(rows))

WithStatus(rows, status) == SelectSeq(rows, LAMBDA r : r.status = status)

\* the keys of a sequence of values, in the order of their first occurrence
RECURSIVE KeysOf(_)
KeysOf(values) ==
  IF values = <<>> THEN <<>>
  ELSE <<Head(values)>>
         \o KeysOf(SelectSeq(Tail(values), LAMBDA v : v # Head(values)))

CountOf(values, key) == Len(SelectSeq(values, LAMBDA v : v = key))

\* sorted(items, key=count, reverse=True): a stable sort, so that among
\* equal counts the earlier key stays first
RECURSIVE SortedByCount(_, _)
SortedByCount(keys, values) ==
  IF keys = <<>> THEN <<>>
  ELSE LET best == CHOOSE k \in 1..Len(keys) :
                     /\ \A j \in 1..Len(keys) :
                          CountOf(values, keys[j]) <= CountOf(values, keys[k])
                     /\ \A j \in 1..(k - 1) :
                          CountOf(values, keys[j]) < CountOf(values, keys[k])
       IN  <<keys[best]>>
             \o SortedByCount(SubSeq(keys, 1, best - 1)
                                \o SubSeq(keys, best + 1, Len(keys)), values)

FirstN(s, n) == SubSeq(s, 1, IF Len(s) < n THEN Len(s) ELSE n)

WithCounts(keys, values) ==
  [k \in 1..Len(keys) |-> [key |-> keys[k], count |-> CountOf(values, keys[k])]]

\* Counter(values).most_common(n)
MostCommon(values, n) ==
  WithCounts(FirstN(SortedByCount(KeysOf(values), values), n), values)

\* Series.value_counts(): the keys by falling count; the order among equal
\* counts is not fixed by pandas, so every such order is an outcome
ValueCounts(values) ==
  LET keys == KeysOf(values)
  IN  { [k \in 1..Len(keys) |-> keys[p[k]]] :
          p \in { q \in [1..Len(keys) -> 1..Len(keys)] :
                    /\ \A a, b \in 1..Len(keys) : a # b => q[a] # q[b]
                    /\ \A a \in 1..(Len(keys) - 1) :
                         CountOf(values, keys[q[a + 1]])
                           <= CountOf(values, keys[q[a]]) } }

Column(rows, field) == [k \in 1..Len(rows) |-> rows[k][field]]

\* all_tags: for tags in df['tags']: if tags: all_tags.extend(tags.split(','))
RECURSIVE AllTags(_)
AllTags(rows) ==
  IF rows = <<>> THEN <<>>
  ELSE (IF Head(rows).tags # <<>> THEN SplitComma(Head(rows).tags, <<>>)
        ELSE <<>>) \o AllTags(Tail(rows))

\* the sizes of the top lists of the report and of the summary
TopSubjects == 5
TopAuthors == 3
TopTags == 5
SummaryTags == 3

\* the lines of a top list of subjects or authors: empty and 정보 없음 keys
\* are skipped after the head was taken
ShownLines(keys, values, blanks) ==
  WithCounts(SelectSeq(keys, LAMBDA key : key \notin blanks), values)

\* the lines of the tag list: f"- **#{tag.strip()}**: {count}권"
TagLines(common) ==
  [k \in 1..Len(common) |->
     [key |-> StripWs(common[k].key), count |-> common[k].count]]

\* period_df of generate_reading_report
PeriodRows(df, period, year, month) ==
  IF period = "month" /\ year # 0 /\ month # 0
    THEN MonthFilter(df, year, month) ELSE df

\* generate_reading_report; subjects and authors are the orders that
\* value_counts produced.  The sections that list single books are left
\* out of the value.
generate_reading_report(df, period, year, month, subjects, authors) ==
  LET period_df == PeriodRows(df, period, year, month)
      period_text == IF period = "month" /\ year # 0 /\ month # 0
                       THEN <<year, month>> ELSE <<0, 0>>
      rated == SelectSeq(period_df, LAMBDA r : r.rating > 0)
  IN  IF Len(period_df) = 0
        THEN [kind |-> "no_books", period_text |-> period_text]
      ELSE [kind |-> "report",
            period_text |-> period_text,
            rows |-> period_df,
            total_books |-> Len(period_df),
            completed_books |-> Len(WithStatus(period_df, "read")),
            reading_books |-> Len(WithStatus(period_df, "reading")),
            want_books |-> Len(WithStatus(period_df, "want")),
            avg_rating |-> IF rated # <<>> THEN MeanOf(rated, "rating")
                           ELSE Zero,
            total_pages |-> SumOf(period_df, "pages"),
            subjects |-> ShownLines(FirstN(subjects, TopSubjects),
                                    Column(period_df, "subject"),
                                    {"", "no_info"}),
            authors |-> ShownLines(FirstN(authors, TopAuthors),
                                   Column(period_df, "author"),
                                   {<<>>, NoInfo}),
            tags |-> TagLines(MostCommon(AllTags(period_df), TopTags))]

\* 'avg_rating': completed_df['rating'].mean() if len(completed_df) > 0 else 0
\* (faulty variant: the mean is taken without the test)
SummaryMeanUnguarded(completed_df) == MeanOf(completed_df, "rating")
SummaryMean(completed_df) ==
  IF Len(completed_df) > 0 THEN MeanOf(completed_df, "rating") ELSE Zero

generate_monthly_summary(df, year, month) ==
  LET month_df == MonthFilter(df, year, month)
      completed_df == WithStatus(month_df, "read")
  IN  [year |-> year,
       month |-> month,
       total_added |-> Len(month_df),
       completed |-> Len(completed_df),
       pages_read |-> IF Len(completed_df) > 0 THEN SumOf(completed_df, "pages")
                      ELSE 0,
       avg_rating |-> SummaryMean(completed_df),
       top_tags |-> MostCommon(AllTags(month_df), SummaryTags),
       books |-> month_df]

\* the number pd.to_datetime reads at positions a..b of a timestamp
RECURSIVE NumberAt(_, _, _)
NumberAt(s, a, b) ==
  IF b < a THEN 0 ELSE 10 * NumberAt(s, a, b - 1) + DigitVal(s[b])

\* pd.to_datetime on 'YYYY-MM-DD HH:MM'
ParseStamp(s) ==
  [y |-> NumberAt(s, 1, 4), m |-> NumberAt(s, 6, 7), d |-> NumberAt(s, 9, 10),
   H |-> NumberAt(s, 12, 13), M |-> NumberAt(s, 15, 16)]

IsLeap(y) == (y % 4 = 0 /\ y % 100 # 0) \/ y % 400 = 0

DaysBeforeMonth(y, m) ==
  LET table == <<0, 31, 59, 90, 120, 151, 181, 212, 243, 273, 304, 334>>
  IN  table[m] + (IF m > 2 /\ IsLeap(y) THEN 1 ELSE 0)

\* the proleptic Gregorian ordinal of a day, as datetime counts days
Ordinal(t) ==
  LET py == t.y - 1
  IN  365 * py + (py \div 4) - (py \div 100) + (py \div 400)
        + DaysBeforeMonth(t.y, t.m) + t.d

\* minutes since the start of the calendar
MinuteOf(t) == (Ordinal(t) * 24 + t.H) * 60 + t.M

\* pd.to_datetime(added_date) >= datetime.now() - timedelta(days=90)
Recent(row, now) ==
  MinuteOf(ParseStamp(row.added_date)) >= MinuteOf(now) - 90 * 24 * 60

\* the orders recent_df.sort_values('added_date') can produce
Ascending(rows) ==
  { [k \in 1..Len(rows) |-> rows[p[k]]] :
      p \in { q \in [1..Len(rows) -> 1..Len(rows)] :
                /\ \A a, b \in 1..Len(rows) : a # b => q[a] # q[b]
                /\ \A a \in 1..(Len(rows) - 1) :
                     StrLe(rows[q[a]].added_date, rows[q[a + 1]].added_date) } }

\* the loop over recent_sorted['author']: the author whose books follow
\* each other three times, <<>> when the loop ends without one
RECURSIVE Consecutive(_, _, _, _)
Consecutive(authors, k, prev_author, consecutive_count) ==
  IF k > Len(authors) THEN <<>>
  ELSE IF /\ prev_author # <<"None">>
          /\ authors[k] = prev_author
          /\ authors[k] \notin {<<>>, NoInfo}
    THEN IF consecutive_count + 1 >= 2
           THEN <<[insight |-> "consecutive", author |-> authors[k],
                   n |-> consecutive_count + 2]>>
         ELSE Consecutive(authors, k + 1, prev_author, consecutive_count + 1)
  ELSE Consecutive(authors, k + 1, authors[k], 0)

\* get_reading_insights; recent_subjects, recent_sorted and fav_authors are
\* the orders value_counts and sort_values produced
get_reading_insights(df, now, recent_subjects, recent_sorted, fav_authors) ==
  IF Len(df) = 0 THEN <<>>
  ELSE
    LET recent_df == SelectSeq(df, LAMBDA r : Recent(r, now))
        read_books == WithStatus(recent_df, "read")
        high_rated == SelectSeq(df, LAMBDA r : r.rating >= 4)
        subject == IF recent_df # <<>>
                        /\ recent_subjects[1] \notin {"", "no_info"}
                     THEN <<[insight |-> "subject", subject |-> recent_subjects[1]]>>
                   ELSE <<>>
        streak == IF recent_df # <<>>
                    THEN Consecutive(Column(recent_sorted, "author"), 1,
                                     <<"None">>, 0)
                  ELSE <<>>
        speed == IF Len(read_books) > 3
                   THEN <<[insight |-> "speed", n |-> Len(read_books)]>>
                 ELSE <<>>
        favourite ==
          IF Len(high_rated) > 5
               /\ CountOf(Column(high_rated, "author"), fav_authors[1]) > 1
            THEN <<[insight |-> "favourite", author |-> fav_authors[1]]>>
          ELSE <<>>
    IN  subject \o streak \o speed \o favourite

(***************************************************************************)
(* The pages that show aggregates.  A result stays on the page until the   *)
(* user leaves the page; the other pages are used when no result is shown. *)
(***************************************************************************)
\* the periods asked for: all time, or a month of the year of the clock
ReportPeriods ==
  { [period |-> "all", year |-> 0, month |-> 0] }
  \cup { [period |-> "month", year |-> 2024, month |-> m] : m \in {4, 5, 6} }

GenerateReport ==
  /\ restorePc = "idle"
  /\ reportOut = NoReport
  /\ \E df \in Views(connDb), p \in ReportPeriods :
       LET period_df == PeriodRows(df, p.period, p.year, p.month)
       IN  \E subjects \in ValueCounts(Column(period_df, "subject")),
              authors \in ValueCounts(Column(period_df, "author")) :
             reportOut' =
               [fn |-> "report", df |-> df, period |-> p.period,
                year |-> p.year, month |-> p.month,
                result |-> generate_reading_report(df, p.period, p.year,
                                                    p.month, subjects, authors)]
  /\ UNCHANGED <<isbnVars, authorVars, searchResult, searchedText, storeVars,
                 restoreVars, backupVars, clock,
                 goalVars, wikiEntities>>

MonthlySummary ==
  /\ restorePc = "idle"
  /\ reportOut = NoReport
  /\ \E df \in Views(connDb), p \in ReportPeriods :
       /\ p.period = "month"
       /\ reportOut' =
            [fn |-> "summary", df |-> df, period |-> p.period,
             year |-> p.year, month |-> p.month,
             result |-> generate_monthly_summary(df, p.year, p.month)]
  /\ UNCHANGED <<isbnVars, authorVars, searchResult, searchedText, storeVars,
                 restoreVars, backupVars, clock,
                 goalVars, wikiEntities>>

Insights ==
  /\ restorePc = "idle"
  /\ reportOut = NoReport
  /\ \E df \in Views(connDb) :
       LET recent_df == SelectSeq(df, LAMBDA r : Recent(r, Now))
           high_rated == SelectSeq(df, LAMBDA r : r.rating >= 4)
       IN  \E recent_subjects \in ValueCounts(Column(recent_df, "subject")),
              recent_sorted \in Ascending(recent_df),
              fav_authors \in ValueCounts(Column(high_rated, "author")) :
             reportOut' =
               [fn |-> "insights", df |-> df, period |-> "all",
                year |-> 0, month |-> 0,
                result |-> get_reading_insights(df, Now, recent_subjects,
                                                recent_sorted, fav_authors)]
  /\ UNCHANGED <<isbnVars, authorVars, searchResult, searchedText, storeVars,
                 restoreVars, backupVars, clock,
                 goalVars, wikiEntities>>

\* the user leaves the page
LeaveReport ==
  /\ reportOut # NoReport
  /\ reportOut' = NoReport
  /\ UNCHANGED <<isbnVars, authorVars, searchResult, searchedText, storeVars,
                 restoreVars, backupVars, clock,
                 goalVars, wikiEntities>>

\* time passes on the host
Tick ==
  /\ restorePc = "idle"
  /\ reportOut = NoReport
  /\ clock < Len(Times)
  /\ clock' = clock + 1
  /\ UNCHANGED <<isbnVars, authorVars, searchResult, searchedText, storeVars,
                 restoreVars, backupVars, reportOut,
                 goalVars, wikiEntities>>

\* The catalog pages: add with lookup, edit, delete, restore.  The
\* collaborator times out or answers with a document without authors.
InitCatalog == IsbnIdle /\ AuthorIdle /\ AppIdle

CatalogReplies ==
  { r \in ApiReplies :
      \/ r.kind = "timeout"
      \/ r.kind = "docs" /\ r.doc.authors = <<>> }

Search == SearchWith(CatalogReplies)

NextCatalog ==
  \/ SetIsbn \/ Search \/ AddBook \/ EditBook \/ DeleteBook
  \/ RestoreCopy \/ RestoreWrite \/ RestoreInspect
  \/ RestoreRemove \/ RestoreRename \/ RestoreReport \/ Restart

SpecCatalog == InitCatalog /\ [][NextCatalog]_vars

\* Backup and restore over a catalog filled without lookup.
RestoreForms == { f \in AddForms : f.title = "almond" }

AddPlain == AddBookFrom(RestoreForms)

NextRestore ==
  \/ AddPlain \/ DeleteBook
  \/ CreateBackup \/ RestoreCopy \/ RestoreWrite \/ RestoreInspect
  \/ RestoreRemove \/ RestoreRename \/ RestoreReport \/ Restart

SpecRestore == InitCatalog /\ [][NextRestore]_vars

\* The aggregates over a catalog filled at different moments.
ReportForms ==
  { [title |-> "almond", author |-> <<"kim">>, rating |-> 5,
     status |-> "read", selected_tags |-> <<>>,
     new_tags_input |-> <<"a", ",", "b">>, pages |-> 200, memo |-> ""],
    [title |-> "demian", author |-> <<"bak">>, rating |-> 3,
     status |-> "want", selected_tags |-> <<>>,
     new_tags_input |-> <<"b">>, pages |-> 0, memo |-> ""] }

AddDated == AddBookFrom(ReportForms)

NextReport ==
  \/ AddDated \/ Tick
  \/ GenerateReport \/ MonthlySummary \/ Insights \/ LeaveReport

SpecReport == InitCatalog /\ [][NextReport]_vars

(***************************************************************************)
(* Vocabulary of the properties of the aggregates, stated on the rows a    *)
(* function was given and on the value it returned.                        *)
(***************************************************************************)
\* year and month written in a timestamp 'YYYY-MM-DD HH:MM'
StampYear(stamp) ==
  1000 * DigitVal(stamp[1]) + 100 * DigitVal(stamp[2])
    + 10 * DigitVal(stamp[3]) + DigitVal(stamp[4])

StampMonth(stamp) == 10 * DigitVal(stamp[6]) + DigitVal(stamp[7])

\* the rows of the month asked for
RowsOfMonth(rows, year, month) ==
  SelectSeq(rows, LAMBDA r : /\ StampYear(r.added_date) = year
                             /\ StampMonth(r.added_date) = month)

MonthAsked == reportOut.fn \in {"report", "summary"} /\ reportOut.period = "month"

\* the rows a returned report or summary was computed from
Aggregated ==
  IF reportOut.fn = "summary" THEN reportOut.result.books
  ELSE IF reportOut.result.kind = "report" THEN reportOut.result.rows
  ELSE <<>>

\* C12: a month report or a monthly summary for year y and month m
\* aggregates exactly the records whose added_date lies in that month, on
\* any day from the first to the last: none of the month is left out and
\* none of another month is included.
C12_MonthHoldsAllItsDays ==
  MonthAsked =>
    Aggregated = RowsOfMonth(reportOut.df, reportOut.year, reportOut.month)

\* the rows of the period asked for
RowsAsked ==
  IF reportOut.period = "month"
    THEN RowsOfMonth(reportOut.df, reportOut.year, reportOut.month)
  ELSE reportOut.df

\* a mean that is the number zero, not the NaN of a mean of nothing
ZeroMean(x) == x.num = 0 /\ x.den # 0

TagNames(text) ==
  LET names == SelectSeq(text, LAMBDA c : c \notin {",", " "})
  IN  [k \in 1..Len(names) |-> <<names[k]>>]

RECURSIVE TagOccurrences(_)
TagOccurrences(rows) ==
  IF rows = <<>> THEN <<>>
  ELSE TagNames(Head(rows).tags) \o TagOccurrences(Tail(rows))

Frequency(occ, key) == Cardinality({k \in 1..Len(occ) : occ[k] = key})

FirstSeen(occ, key) ==
  CHOOSE k \in 1..Len(occ) : occ[k] = key /\ \A j \in 1..(k - 1) : occ[j] # key

\* a goes before b: it is more frequent, or as frequent and seen earlier
GoesBefore(occ, a, b) ==
  \/ Frequency(occ, a) > Frequency(occ, b)
  \/ /\ Frequency(occ, a) = Frequency(occ, b)
     /\ FirstSeen(occ, a) < FirstSeen(occ, b)

\* lines is the top n of the occurrences occ, the keys in blanks not shown
IsTopList(lines, occ, n, blanks) ==
  LET keys == {occ[k] : k \in 1..Len(occ)}
  IN  /\ \A i \in 1..Len(lines) :
           /\ lines[i].key \in keys
           /\ lines[i].count = Frequency(occ, lines[i].key)
      /\ {lines[i].key : i \in 1..Len(lines)} =
           { key \in keys \ blanks :
               Cardinality({j \in keys : GoesBefore(occ, j, key)}) < n }
      /\ \A i, j \in 1..Len(lines) :
           i < j => GoesBefore(occ, lines[i].key, lines[j].key)

\* C14: the top 5 tags, top 3 authors and top 5 subjects of a report are in
\* the order of falling frequency, equal frequencies in the order of first
\* occurrence in the rows, and an entry is cut only when as many entries as
\* the list holds go before it.
C14_TopListsStable ==
  (reportOut.fn = "report" /\ reportOut.result.kind = "report") =>
    /\ IsTopList(reportOut.result.tags,
                 TagOccurrences(reportOut.result.rows), 5, {})
    /\ IsTopList(reportOut.result.authors,
                 Column(reportOut.result.rows, "author"), 3, {<<>>, NoInfo})
    /\ IsTopList(reportOut.result.subjects,
                 Column(reportOut.result.rows, "subject"), 5, {"", "no_info"})

(***************************************************************************)
(* Vocabulary of the properties of backup and restore, stated on the       *)
(* files before and after.                                                 *)
(***************************************************************************)
RestoreDone == restorePc = "done"

\* the file is a database that holds the catalog table
HoldsCatalog(f) == f.kind = "sqlite" /\ "books" \in f.tables

\* C15: when the uploaded file does not hold the table books,
\* restore_from_backup returns False, reading_log.db has exactly the
\* content it had before, and reading_log_temp.db does not exist afterwards.
C15_NoCatalogTableRejected ==
  (RestoreDone /\ ~HoldsCatalog(uploaded)) =>
    /\ restoreResult = "false"
    /\ LiveContent = liveBefore
    /\ tempFile = Absent

\* a restore of a database without the table books, over a catalog with a
\* record, that reached the inspection and has returned
C15_Witness ==
  /\ RestoreDone
  /\ uploaded.kind = "sqlite"
  /\ "books" \notin uploaded.tables
  /\ ~ioFault
  /\ liveBefore # Absent
  /\ liveBefore.books # <<>>
  /\ restoreResult = "false"

\* C16: while a restore runs, the old store is kept until the new one is
\* in place: reading_log.db is never missing in an intermediate state, nor
\* after the restore has returned.
C16_LiveFileNeverMissing ==
  (restorePc # "idle" /\ liveBefore # Absent) => LiveContent # Absent

\* C17: a backup made by create_backup and uploaded to restore_from_backup
\* is accepted, and the store then holds the records the catalog had when
\* the backup was made.
C17_BackupRestoresItself ==
  (RestoreDone /\ download # Absent /\ uploaded = download
     /\ liveBefore # Absent /\ ~ioFault) =>
    /\ restoreResult = "true"
    /\ HoldsCatalog(LiveContent)
    /\ LiveContent.books = backupOf

(***************************************************************************)
(* Vocabulary of the properties of the stored records.                     *)
(***************************************************************************)
\* the records of the catalog the program shows
Records == connDb.books

\* the records in the file reading_log.db
FileRecords ==
  IF LiveContent # Absent /\ LiveContent.kind = "sqlite" THEN LiveContent.books
  ELSE <<>>

RestoredNever == restores = 0

\* C18: after any sequence of add and edit actions every stored record has
\* a title that is not empty: an add or edit with an empty title is
\* rejected and changes nothing.
C18_TitleNeverEmpty ==
  RestoredNever => \A k \in 1..Len(Records) : Records[k].title # ""

\* the canonical identifier of a text with ten or thirteen significant
\* characters
Canonical(text) ==
  LET sig == SigText(text)
  IN  IF Len(sig) = 10
        THEN LET body == <<"9", "7", "8">> \o SubSeq(sig, 1, 9)
             IN  Append(body, ExpectedCheck(body))
      ELSE sig

\* a record was added while the lookup result of the entered text was shown
AddedAfterLookup ==
  /\ Len(connDb'.books) = Len(connDb.books) + 1
  /\ searchResult # NoResult
  /\ searchResult.outcome = "success"
  /\ searchedText = isbnIn

\* C19: a record added after a lookup that succeeded for the entered
\* identifier is stored with the canonical 13-digit identifier (separators
\* stripped, an ISBN-10 converted).
C19_LookupStoresCanonical ==
  [][AddedAfterLookup =>
       connDb'.books[Len(connDb'.books)].isbn = Canonical(isbnIn)]_vars

ValidRecord(r) ==
  /\ r.rating \in {1, 2, 3, 4, 5}
  /\ r.status \in {"want", "reading", "read"}
  /\ r.pages >= 0
  /\ r.loan_count >= 0

\* C20: in every state reached by add, edit, delete and successful
\* restore, every stored record has a rating from 1 to 5, one of the three
\* states of reading, and pages and loan_count that are not negative.
C20_RecordsStayInRange ==
  /\ \A k \in 1..Len(Records) : ValidRecord(Records[k])
  /\ \A k \in 1..Len(FileRecords) : ValidRecord(FileRecords[k])

(***************************************************************************)
(* Reading goals: the table reading_goals (year UNIQUE, id AUTOINCREMENT)  *)
(* seen through the cached connection.  upsertOk tells whether the SQLite  *)
(* library accepts ON CONFLICT ... DO UPDATE (3.24.0 and later).           *)
(***************************************************************************)
\* values handed to set_reading_goal: two ints, a list (sqlite3 cannot bind
\* it: ProgrammingError) and an int beyond 64 bits (OverflowError)
GoalValues ==
  { [type |-> "int", v |-> 5], [type |-> "int", v |-> 10],
    [type |-> "list"], [type |-> "huge"] }

Bindable(goal) == goal.type = "int"

RowsOfYear(table, year) == SelectSeq(table, LAMBDA r : r.year = year)

get_reading_goal(table, year) ==
  LET result == RowsOfYear(table, year)
  IN  IF result # <<>> THEN result[1].goal_count ELSE NoGoal

\* INSERT ... ON CONFLICT(year) DO UPDATE SET goal_count, created_date
Upsert(table, seq, year, goal, date) ==
  IF RowsOfYear(table, year) # <<>>
    THEN [k \in 1..Len(table) |->
            IF table[k].year = year
              THEN [table[k] EXCEPT !.goal_count = goal,
                                    !.created_date = date]
            ELSE table[k]]
  ELSE Append(table, [id |-> seq + 1, year |-> year, goal_count |-> goal,
                      created_date |-> date])

\* DELETE FROM reading_goals WHERE year=?
DeleteYear(table, year) == SelectSeq(table, LAMBDA r : r.year # year)

\* the outcome of set_reading_goal: the table seen through the connection
\* afterwards, the AUTOINCREMENT counter and what the caller gets
set_reading_goal(table, seq, year, goal, upsert_ok, date) ==
  IF goal.type = "huge"
    THEN [table |-> table, seq |-> seq, ret |-> "raised"]
  ELSE IF upsert_ok /\ Bindable(goal)
    THEN [table |-> Upsert(table, seq, year, goal, date),
          seq |-> seq + 1, ret |-> "true"]
  ELSE LET deleted == DeleteYear(table, year)
       IN  IF Bindable(goal)
             THEN [table |-> Append(deleted,
                               [id |-> seq + 1, year |-> year,
                                goal_count |-> goal, created_date |-> date]),
                   seq |-> seq + 1, ret |-> "true"]
           ELSE [table |-> deleted, seq |-> seq, ret |-> "false"]

Today == SubSeq(Strftime(Now), 1, 10)

\* a call of set_reading_goal; MaxGoalSets bounds the AUTOINCREMENT counter
SetGoal ==
  /\ goalSeq < MaxGoalSets
  /\ \E year \in GoalYears, goal \in GoalValues :
       LET out == set_reading_goal(goalTable, goalSeq, year, goal, upsertOk,
                                   Today)
       IN  /\ goalTable' = out.table
           /\ goalSeq' = out.seq
           /\ goalOut' = [fn |-> "set", year |-> year, ret |-> out.ret]
           /\ lastGoal' = IF out.ret = "true"
                            THEN [lastGoal EXCEPT ![year] = goal]
                          ELSE lastGoal
  /\ UNCHANGED <<isbnVars, authorVars, searchResult, searchedText, storeVars,
                 restoreVars, backupVars, clock, reportOut, upsertOk,
                 wikiEntities>>

\* a call of get_reading_goal
GetGoal ==
  /\ \E year \in GoalYears :
       goalOut' = [fn |-> "get", year |-> year,
                   value |-> get_reading_goal(goalTable, year)]
  /\ UNCHANGED <<isbnVars, authorVars, searchResult, searchedText, storeVars,
                 restoreVars, backupVars, clock, reportOut, goalTable,
                 goalSeq, upsertOk, lastGoal, wikiEntities>>

InitGoals ==
  /\ IsbnIdle /\ AuthorIdle /\ CatalogIdle /\ GoalIdle
  /\ upsertOk \in BOOLEAN

NextGoals == SetGoal \/ GetGoal

SpecGoals == InitGoals /\ [][NextGoals]_vars

\* the goal rows of a year
GoalRows(year) == {k \in 1..Len(goalTable) : goalTable[k].year = year}

GoalOf(table, year) ==
  {table[k].goal_count : k \in {n \in 1..Len(table) : table[n].year = year}}

GoalsHold ==
  /\ \A y \in GoalYears : Cardinality(GoalRows(y)) <= 1
  /\ goalOut.fn = "get" => goalOut.value = lastGoal[goalOut.year]
  /\ \A y \in GoalYears : lastGoal[y] # NoGoal => GoalRows(y) # {}

OtherYearsKept ==
  goalOut'.fn = "set" =>
    \A y \in GoalYears \ {goalOut'.year} :
      GoalOf(goalTable', y) = GoalOf(goalTable, y)

LookupIsbns ==
  IsbnSeeds \cup
  { <<"9","7","8"," ","8","9","3","6","4","3","4","2","6","7">>,
    <<"8","9","8","3","7","1","1","5","4","X">>,
    <<"0","0","0","0","0","0","0","0","0","0">>,
    <<"-">> }

\* a text is given as isbn
EnterIsbn ==
  /\ \E text \in LookupIsbns : text # isbnIn /\ isbnIn' = text
  /\ UNCHANGED <<isbnResult, prevIn, prevResult, edits, authorVars,
                 searchResult, searchedText, storeVars, restoreVars,
                 backupVars, clock, reportOut, goalVars, wikiEntities>>

\* book_collector.get_book_metadata(isbn)
Lookup ==
  /\ \E api \in AllReplies : searchResult' = get_book_metadata(isbnIn, api)
  /\ searchedText' = isbnIn
  /\ UNCHANGED <<isbnVars, authorVars, storeVars, restoreVars, backupVars,
                 clock, reportOut, goalVars, wikiEntities>>

NextLookup == EnterIsbn \/ Lookup

SpecLookup == InitCatalog /\ [][NextLookup]_vars

LookedUp == searchResult # NoResult

SuccessFields ==
  {"title", "author", "publisher", "publication_year", "subject",
   "loan_count", "cover_url"}

\* C22: get_book_metadata never raises: for every input and every
\* behaviour of the service the result is a success with title, author,
\* publisher, publication year, subject, loan_count and cover_url, whose
\* author is not the empty string, or a failure with a message and a
\* suggestion.
C22_LookupAlwaysStructured ==
  LookedUp =>
    \/ /\ searchResult.outcome = "success"
       /\ SuccessFields \subseteq DOMAIN searchResult
       /\ searchResult.author # <<>>
    \/ /\ searchResult.outcome = "failure"
       /\ {"message", "suggestion"} \subseteq DOMAIN searchResult
       /\ searchResult.message # ""
       /\ searchResult.suggestion # ""

\* a success for a document whose authors were only separators and a role
\* word
C22_Witness ==
  /\ LookedUp
  /\ searchResult.outcome = "success"
  /\ searchResult.title = "almond"
  /\ searchResult.author = <<"no_info">>

(***************************************************************************)
(* The wiki page.  A search asks Wikipedia for the title and for the first *)
(* author of the selected record and Wikidata for the author; each request *)
(* finds a page or not (no result, a timeout and any other error all give  *)
(* success False).  The entities found stay in the session; the save       *)
(* button writes them to the record selected at that moment.  The          *)
(* connector's cache lives for one run of the script and is not kept.      *)
(***************************************************************************)
NoPage == [found |-> FALSE]

\* what the three requests of one search find
WikiReplies == [book : BOOLEAN, author : BOOLEAN, wikidata : BOOLEAN]

\* author_clean.split(',')[0].strip()
FirstAuthor(author_clean) == StripWs(SplitComma(author_clean, <<>>)[1])

search_book_entities(book_data, found) ==
  LET author_clean == IF book_data.author # <<>>
                        THEN clean_author_name(book_data.author) ELSE <<>>
  IN  [book |-> IF book_data.title # "" /\ found.book
                  THEN [found |-> TRUE, query |-> book_data.title]
                ELSE NoPage,
       author |-> IF author_clean # <<>> /\ found.author
                    THEN [found |-> TRUE, query |-> FirstAuthor(author_clean),
                          wikidata |-> found.wikidata]
                  ELSE NoPage]

\* book_options.index(selected_book_option): the first record with the
\* label of the chosen one
SelectedIndex(books, k) ==
  CHOOSE j \in 1..k :
    /\ books[j].title = books[k].title /\ books[j].author = books[k].author
    /\ \A i \in 1..(j - 1) :
         ~(books[i].title = books[k].title /\ books[i].author = books[k].author)

\* the wiki search button, the services answering with one of replies
WikiSearchWith(replies) ==
  /\ restorePc = "idle"
  /\ reportOut = NoReport
  /\ \E k \in 1..Len(connDb.books), found \in replies :
       LET book_info == connDb.books[SelectedIndex(connDb.books, k)]
           entities == search_book_entities(book_info, found)
       IN  wikiEntities' = [searched |-> TRUE, book |-> entities.book,
                            author |-> entities.author]
  /\ UNCHANGED <<isbnVars, authorVars, searchResult, searchedText, storeVars,
                 restoreVars, backupVars, clock, reportOut, goalVars>>

\* the save button under the results: UPDATE books SET wiki_links = ?,
\* last_wiki_search = ? WHERE id = ?
SaveWikiLinks ==
  /\ restorePc = "idle"
  /\ reportOut = NoReport
  /\ wikiEntities.searched
  /\ wikiEntities.book.found \/ wikiEntities.author.found
  /\ Writable
  /\ \E k \in 1..Len(connDb.books) :
       LET sel == SelectedIndex(connDb.books, k)
       IN  connDb' =
             [connDb EXCEPT !.books =
                [n \in 1..Len(@) |->
                   IF @[n].id # @[sel].id THEN @[n]
                   ELSE [@[n] EXCEPT
                           !.wiki_links = [kind |-> "json",
                                           book |-> wikiEntities.book,
                                           author |-> wikiEntities.author],
                           !.last_wiki_search = Strftime(Now)]]]
  /\ UNCHANGED <<isbnVars, authorVars, searchResult, searchedText, liveFile,
                 tempFile, safetyFile, restoreVars, backupVars, clock,
                 reportOut, goalVars, wikiEntities>>

\* The add page and the wiki page together: every request
\* of a wiki search finds a page, or none does, or only the title's.
PagesWikiReplies ==
  { f \in WikiReplies : f.author = f.wikidata /\ (f.author => f.book) }

WikiSearch == WikiSearchWith(PagesWikiReplies)

NextPages ==
  \/ SetIsbn \/ Search \/ AddBook \/ DeleteBook
  \/ WikiSearch

SpecPages == InitCatalog /\ [][NextPages]_vars

\* The edit page and the wiki page while the clock advances; every
\* request of a wiki search finds a page.
Later ==
  /\ clock < MaxClock
  /\ Tick

WikiFind == WikiSearchWith({f \in WikiReplies : f.book /\ f.author /\ f.wikidata})

\* The session opens the database file of earlier sessions, which holds
\* two records already.
InitEdit ==
  /\ IsbnIdle /\ AuthorIdle
  /\ SessionIdle /\ GoalIdle /\ upsertOk = TRUE
  /\ \E first \in RestoreForms, second \in RestoreForms :
       connDb = add_book_to_db(add_book_to_db(EmptyDb, NewBook(first)),
                               NewBook(second))

NextEdit ==
  \/ EditBook \/ DeleteBook
  \/ WikiFind \/ SaveWikiLinks \/ Later

SpecEdit == InitEdit /\ [][NextEdit]_vars

(***************************************************************************)
(* Vocabulary of the properties of the lookups.                            *)
(***************************************************************************)
\* the step ran an ISBN lookup: the text looked up or its result changed
LookupStep ==
  /\ <<searchResult, searchedText>>' # <<searchResult, searchedText>>
  /\ searchedText' # <<>>

\* the step ran a wiki search
WikiStep == wikiEntities' # wikiEntities

\* the text cannot be an identifier: neither ten nor thirteen significant
\* characters
NoIdentifier(text) == Len(SigText(text)) \notin {10, 13}

StructuredResult(r) ==
  \/ r = NoResult
  \/ r.outcome = "success"
  \/ /\ r.outcome = "failure"
     /\ r.message # ""
     /\ r.suggestion # ""

\* the step added a record
AddStep == Len(connDb'.books) = Len(connDb.books) + 1

AddedRow == connDb'.books[Len(connDb'.books)]

NothingPrefilled(row) ==
  /\ row.publisher = ""
  /\ row.publication_year = ""
  /\ row.subject = ""
  /\ row.loan_count = 0
  /\ row.cover_url = ""

StoreKept == UNCHANGED <<connDb, liveFile, tempFile, safetyFile>>

LookupsKeepCatalog ==
  /\ (LookupStep \/ WikiStep) => StoreKept
  /\ LookupStep =>
       /\ StructuredResult(searchResult')
       /\ NoIdentifier(searchedText') => searchResult' = NoResult
  /\ (AddStep /\ (searchResult = NoResult \/ searchResult.outcome # "success"))
       => NothingPrefilled(AddedRow)

\* C23: an ISBN lookup or a wiki search, whatever its outcome, leaves the
\* catalog store unchanged; a failed lookup leaves the session's search
\* result cleared or a failure with message and suggestion, and a record
\* added while no success is held takes nothing from it.
C23_LookupsKeepCatalog == [][LookupsKeepCatalog]_vars

\* a lookup of a text that is no identifier ended with the result cleared,
\* after a wiki search, while the catalog holds a record
C23_Witness ==
  /\ searchedText = <<"1", "2", "3", "4", "5">>
  /\ searchResult = NoResult
  /\ wikiEntities.searched
  /\ Len(connDb.books) > 0

(***************************************************************************)
(* Further properties of validate_and_format_isbn.                         *)
(***************************************************************************)
\* ten significant characters, the first nine of them digits
TenWithNineDigits(text) ==
  /\ Len(SigText(text)) = 10
  /\ IsDigits(SubSeq(SigText(text), 1, 9))

Prefix12(text) == <<"9", "7", "8">> \o SubSeq(SigText(text), 1, 9)

\* C24: for ten significant characters whose first nine are digits the
\* result is 978, those nine digits and the check digit
\* (10 - (checksum mod 10)) mod 10 with weights 1,3,1,3,...; the tenth
\* character never influences the result; 8983711540 gives an identifier
\* beginning 978898371154.
C24_TenthCharacterDropped ==
  (Validated /\ TenWithNineDigits(isbnIn)) =>
    /\ Success13(isbnResult)
    /\ Len(isbnResult.isbn13) = 13
    /\ SubSeq(isbnResult.isbn13, 1, 12) = Prefix12(isbnIn)
    /\ isbnResult.isbn13[13] \in Digits
    /\ DigitVal(isbnResult.isbn13[13]) = ExpectedCheck(Prefix12(isbnIn))
    /\ (PrevValidated /\ TenWithNineDigits(prevIn)
          /\ Prefix12(prevIn) = Prefix12(isbnIn))
         => isbnResult.isbn13 = prevResult.isbn13
    /\ isbnIn = <<"8","9","8","3","7","1","1","5","4","0">>
         => SubSeq(isbnResult.isbn13, 1, 12) =
              <<"9","7","8","8","9","8","3","7","1","1","5","4">>

\* 8983711540 was validated, its tenth character replaced by X, and the
\* new text validated
C24_Witness ==
  /\ Validated
  /\ PrevValidated
  /\ prevIn = <<"8","9","8","3","7","1","1","5","4","0">>
  /\ isbnIn = <<"8","9","8","3","7","1","1","5","4","X">>
  /\ isbnResult.valid

\* the characters the cleaned author text must neither begin nor end with
TrimChars == {" ", "\t", "\n", ",", ";"}

\* C25: for every input the output of clean_author_name neither begins nor
\* ends with a whitespace character (space, tab, newline), a comma or a
\* semicolon, and it is empty when the input is empty.
C25_CleanedIsTrimmed ==
  Cleaned =>
    /\ authorOut # <<>> =>
         /\ authorOut[1] \notin TrimChars
         /\ authorOut[Len(authorOut)] \notin TrimChars
    /\ authorIn = <<>> => authorOut = <<>>

(***************************************************************************)
(* Vocabulary of the properties of edit and delete.                        *)
(***************************************************************************)
Ids(books) == {books[k].id : k \in 1..Len(books)}

RowOf(books, id) == books[CHOOSE k \in 1..Len(books) : books[k].id = id]

\* the records whose content differs between the two states
ChangedIds ==
  {id \in Ids(connDb.books) \cap Ids(connDb'.books) :
     RowOf(connDb'.books, id) # RowOf(connDb.books, id)}

\* the step is an edit: the same records, one of them changed in more than
\* its wiki links and the moment they were saved
EditStep ==
  /\ Ids(connDb'.books) = Ids(connDb.books)
  /\ \E id \in ChangedIds :
       LET old == RowOf(connDb.books, id)
           new == RowOf(connDb'.books, id)
       IN  [new EXCEPT !.wiki_links = old.wiki_links,
                       !.last_wiki_search = old.last_wiki_search] # old

\* the step is a delete
DeleteStep == Len(connDb'.books) = Len(connDb.books) - 1

\* the values a user submits with the edit form: the title, rating, status
\* and pages typed, the other fields as the form showed them
Submitted(old, new) ==
  /\ new.isbn = old.isbn
  /\ new.author = old.author
  /\ new.publisher = old.publisher
  /\ new.memo = old.memo
  /\ \E form \in EditForms :
       /\ new.title = form.new_title
       /\ new.rating = form.new_rating
       /\ new.status = form.new_status
       /\ new.pages = form.new_pages

RestKept(old, new) ==
  /\ new.id = old.id
  /\ new.added_date = old.added_date
  /\ new.publication_year = old.publication_year
  /\ new.subject = old.subject
  /\ new.loan_count = old.loan_count
  /\ new.cover_url = old.cover_url
  /\ new.wiki_links = old.wiki_links
  /\ new.last_wiki_search = old.last_wiki_search

EditAndDeleteFrame ==
  /\ EditStep =>
       /\ Cardinality(ChangedIds) = 1
       /\ \A id \in ChangedIds :
            /\ Submitted(RowOf(connDb.books, id), RowOf(connDb'.books, id))
            /\ RestKept(RowOf(connDb.books, id), RowOf(connDb'.books, id))
            /\ RowOf(connDb'.books, id).updated_date = Strftime(Times[clock])
  /\ DeleteStep =>
       /\ Cardinality(Ids(connDb.books) \ Ids(connDb'.books)) = 1
       /\ Ids(connDb'.books) \subseteq Ids(connDb.books)
       /\ ChangedIds = {}

C27_ValidResultIsFixedPoint ==
  /\ (Validated /\ isbnResult.outcome = "returned" /\ isbnResult.valid) =>
       ValidIsbn13(isbnResult.isbn13)
  /\ (Validated /\ PrevValidated /\ prevResult.outcome = "returned"
        /\ prevResult.valid /\ isbnIn = prevResult.isbn13) =>
       /\ Success13(isbnResult)
       /\ isbnResult.isbn13 = isbnIn

\* the identifier converted from ten characters was entered and validated
C27_Witness ==
  /\ Validated
  /\ PrevValidated
  /\ Len(SigText(prevIn)) = 10
  /\ prevResult.valid
  /\ isbnIn = prevResult.isbn13
  /\ isbnResult.valid

\* C28: if restore_from_backup fails at any of its steps it returns False,
\* and afterwards reading_log.db still exists with its previous content and
\* reading_log_temp.db does not exist.
C28_FailedRestoreKeepsLive ==
  (RestoreDone /\ restoreResult = "false" /\ liveBefore # Absent) =>
    /\ LiveContent # Absent
    /\ LiveContent = liveBefore
    /\ tempFile = Absent

\* C29: after restore_from_backup returned True and the application reran,
\* the reads and writes through the connection of init_database operate on
\* the store that reading_log.db names, not on the store that was replaced.
C29_ConnectionFollowsRestore ==
  (restorePc = "idle" /\ liveFile # Absent) =>
    /\ liveFile = ConnFile
    /\ connDb = LiveContent

\* the fields of a record that only a lookup fills
LookupFields(row) ==
  [publication_year |-> row.publication_year, subject |-> row.subject,
   loan_count |-> row.loan_count, cover_url |-> row.cover_url]

NoLookupFields ==
  [publication_year |-> "", subject |-> "", loan_count |-> 0,
   cover_url |-> ""]

\* a lookup of the text stored with the added record succeeded before the
\* add
LookedUpStored ==
  /\ searchResult # NoResult
  /\ searchResult.outcome = "success"
  /\ searchedText = AddedRow.isbn

LookupFieldsMatch ==
  AddStep =>
    /\ LookedUpStored => LookupFields(AddedRow) = LookupFields(searchResult)
    /\ ~LookedUpStored => LookupFields(AddedRow) = NoLookupFields
    /\ searchResult' = NoResult

\* C30: the lookup-derived fields stored with a new record (publication
\* year, subject, loan count, cover URL) come from a successful lookup of
\* the identifier stored in that record and are empty or zero when no
\* lookup of that identifier succeeded; after a successful add the
\* session's search result is cleared.
C30_LookupFieldsOfStoredIsbn == [][LookupFieldsMatch]_vars

====
